---- MODULE Spec2Model ----
(***************************************************************************)
(* A model of the desktop automation agent: the agent loop and plan        *)
(* execution of orchestration/agent_core.py, the perception cache of       *)
(* perception/screen_analyzer.py, the context of memory/context_manager.py *)
(* the action grammar of reasoning/decision_maker.py and the dispatcher of *)
(* action/action_executor.py.                                              *)
(*                                                                         *)
(* Text is modelled as a sequence of one-character strings, so that        *)
(* upper(), strip(), split(), startswith() and `in` are computed and not   *)
(* assumed.                                                                *)
(***************************************************************************)
EXTENDS Integers, Sequences, FiniteSets, TLC

(***************************************************************************)
(* Bounds of the model.                                                    *)
(***************************************************************************)
\* longest plan the planner hands to the loop
MaxSteps == 3
\* number of observe/invalidate/screen-change calls in the cache driver
MaxCalls == 4

(***************************************************************************)
(* Python string primitives.                                               *)
(***************************************************************************)
Max(a, b) == IF a >= b THEN a ELSE b

Min(a, b) == IF a <= b THEN a ELSE b

LowerLetters == <<"a","b","c","d","e","f","g","h","i","j","k","l","m",
                  "n","o","p","q","r","s","t","u","v","w","x","y","z">>

UpperLetters == <<"A","B","C","D","E","F","G","H","I","J","K","L","M",
                  "N","O","P","Q","R","S","T","U","V","W","X","Y","Z">>

Digits == <<"0","1","2","3","4","5","6","7","8","9">>

IndexIn(c, table) ==
    IF \E i \in 1..Len(table) : table[i] = c
    THEN CHOOSE i \in 1..Len(table) : table[i] = c
    ELSE 0

\* str.upper() on one character
UpperChar(c) ==
    LET i == IndexIn(c, LowerLetters) IN IF i = 0 THEN c ELSE UpperLetters[i]

\* str.lower() on one character
LowerChar(c) ==
    LET i == IndexIn(c, UpperLetters) IN IF i = 0 THEN c ELSE LowerLetters[i]

\* str.upper()
Upper(s) == [i \in 1..Len(s) |-> UpperChar(s[i])]

\* str.lower()
Lower(s) == [i \in 1..Len(s) |-> LowerChar(s[i])]

\* str.isspace(), for the characters of the model's texts
IsSpace(c) == c \in {" ", "\n", "\t"}

\* s[a:b] with 0-based, end-exclusive Python indices already clamped by caller
Slice(s, a, b) ==
    IF b <= a THEN << >> ELSE [i \in 1..(b - a) |-> s[a + i]]

\* s[n:]
DropFirst(s, n) == Slice(s, Min(n, Len(s)), Len(s))

\* str.startswith(p)
StartsWith(s, p) ==
    /\ Len(p) <= Len(s)
    /\ \A i \in 1..Len(p) : s[i] = p[i]

\* str.endswith(p)
EndsWith(s, p) ==
    /\ Len(p) <= Len(s)
    /\ \A i \in 1..Len(p) : s[Len(s) - Len(p) + i] = p[i]

\* `sub in s`
Contains(s, sub) ==
    \E a \in 0..(Len(s) - Len(sub)) :
        \A i \in 1..Len(sub) : s[a + i] = sub[i]

\* str.strip()
Strip(s) ==
    IF \A i \in 1..Len(s) : IsSpace(s[i])
    THEN << >>
    ELSE LET a == CHOOSE i \in 1..Len(s) :
                    /\ ~IsSpace(s[i])
                    /\ \A j \in 1..(i - 1) : IsSpace(s[j])
             b == CHOOSE i \in 1..Len(s) :
                    /\ ~IsSpace(s[i])
                    /\ \A j \in (i + 1)..Len(s) : IsSpace(s[j])
         IN  Slice(s, a - 1, b)

\* str.split(): the whitespace-separated words of s, no empty word
Split(s) ==
    LET starts == { i \in 1..Len(s) :
                      ~IsSpace(s[i]) /\ (i = 1 \/ IsSpace(s[i - 1])) }
        start(n) == CHOOSE i \in starts : Cardinality({ j \in starts : j < i }) = n - 1
        end(i) == CHOOSE j \in i..Len(s) :
                     /\ \A m \in i..j : ~IsSpace(s[m])
                     /\ j = Len(s) \/ IsSpace(s[j + 1])
    IN  [n \in 1..Cardinality(starts) |-> SubSeq(s, start(n), end(start(n)))]

\* str.split(sep) for a one-character separator: empty fields are kept
SplitOn(s, sep) ==
    LET at == { i \in 1..Len(s) : s[i] = sep }
        count == Cardinality(at)
        \* where the n-th separator is; the ends of s count as separators
        nth(n) == IF n = 0 THEN 0
                  ELSE IF n = count + 1 THEN Len(s) + 1
                  ELSE CHOOSE i \in at : Cardinality({ j \in at : j < i }) = n - 1
    IN  [n \in 1..(count + 1) |-> SubSeq(s, nth(n - 1) + 1, nth(n) - 1)]

IsDigit(c) == IndexIn(c, Digits) # 0

AllDigits(s) == Len(s) > 0 /\ \A i \in 1..Len(s) : IsDigit(s[i])

RECURSIVE DigitsValue(_)
DigitsValue(s) ==
    IF s = << >> THEN 0
    ELSE 10 * DigitsValue(SubSeq(s, 1, Len(s) - 1)) + (IndexIn(s[Len(s)], Digits) - 1)

HasSign(s) == Len(s) > 0 /\ s[1] \in {"+", "-"}

Unsigned(s) == IF HasSign(s) THEN DropFirst(s, 1) ELSE s

\* a mutant of IsInt: int() takes any word
IsIntAnything(tok) == TRUE

\* int(tok) succeeds: an optional sign and decimal digits
IsInt(tok) == AllDigits(Unsigned(tok))

\* int(tok)
ToInt(tok) ==
    IF HasSign(tok) /\ tok[1] = "-"
    THEN 0 - DigitsValue(Unsigned(tok))
    ELSE DigitsValue(Unsigned(tok))

\* float(tok) succeeds: an optional sign, digits, and an optional fraction
IsFloat(tok) ==
    LET u == Unsigned(tok)
        parts == SplitOn(u, ".")
    IN  /\ Len(u) > 0
        /\ Len(parts) \in {1, 2}
        /\ \A i \in 1..Len(parts) : parts[i] = << >> \/ AllDigits(parts[i])
        /\ \E i \in 1..Len(parts) : parts[i] # << >>

\* float(tok), as a number of thousandths (fractions beyond 3 digits are cut)
ToMillis(tok) ==
    LET u == Unsigned(tok)
        parts == SplitOn(u, ".")
        whole == IF parts[1] = << >> THEN 0 ELSE DigitsValue(parts[1])
        frac3 == IF Len(parts) = 1 THEN << >>
                 ELSE SubSeq(parts[2] \o <<"0","0","0">>, 1, 3)
        frac  == IF frac3 = << >> THEN 0 ELSE DigitsValue(frac3)
        mag   == 1000 * whole + frac
    IN  IF HasSign(tok) /\ tok[1] = "-" THEN 0 - mag ELSE mag

(***************************************************************************)
(* Text literals.                                                          *)
(***************************************************************************)
Quote == "\""

kwCLICK == <<"C","L","I","C","K">>

kwCLICKsp == <<"C","L","I","C","K"," ">>

kwTYPE == <<"T","Y","P","E">>

kwPRESS == <<"P","R","E","S","S">>

kwWAIT == <<"W","A","I","T">>

kwSCROLL == <<"S","C","R","O","L","L">>

kwRUN == <<"R","U","N">>

kwLAUNCH == <<"L","A","U","N","C","H">>

kwUP == <<"U","P">>

kwCHROME == <<"C","H","R","O","M","E">>

kwRETRY == <<"R","E","T","R","Y">>

\* the values of an action's 'type'
tyClick == <<"c","l","i","c","k">>

tyType == <<"t","y","p","e">>

tyPress == <<"p","r","e","s","s">>

tyWait == <<"w","a","i","t">>

tyScroll == <<"s","c","r","o","l","l">>

tyRun == <<"r","u","n">>

tyLaunch == <<"l","a","u","n","c","h">>

tyLaunchChrome == <<"l","a","u","n","c","h","_","c","h","r","o","m","e">>

tyUnknown == <<"u","n","k","n","o","w","n">>

tyDoubleClick == <<"d","o","u","b","l","e","_","c","l","i","c","k">>

tyRightClick == <<"r","i","g","h","t","_","c","l","i","c","k">>

tyDrag == <<"d","r","a","g">>

tyScreenshot == <<"s","c","r","e","e","n","s","h","o","t">>

\* text[1:-1] when text starts and ends with a double quote, text otherwise
Unquote(t) ==
    IF StartsWith(t, <<Quote>>) /\ EndsWith(t, <<Quote>>)
    THEN Slice(t, 1, Len(t) - 1)
    ELSE t

(***************************************************************************)
(* DecisionMaker._parse_action: one line of text to an action record.      *)
(* Durations are in thousandths of a second.                               *)
(***************************************************************************)
DefaultWait == 2000

\* a mutant of WaitDuration: a duration that does not parse counts as no wait
WaitDurationNoFallback(parts) ==
    IF Len(parts) > 1
    THEN IF IsFloat(parts[2]) THEN ToMillis(parts[2]) ELSE 0
    ELSE DefaultWait

\* the WAIT branch's float(parts[1]) with its default
WaitDuration(parts) ==
    IF Len(parts) > 1
    THEN IF IsFloat(parts[2]) THEN ToMillis(parts[2]) ELSE DefaultWait
    ELSE DefaultWait

\* a mutant of UnknownAction: raw is the normalised text
UnknownActionNormalised(action_text) ==
    [type |-> tyUnknown, raw |-> Upper(Strip(action_text))]

UnknownAction(action_text) == [type |-> tyUnknown, raw |-> action_text]

_parse_action(action_text) ==
    LET action == Upper(Strip(action_text))
        parts  == Split(action)
    IN  IF StartsWith(action, kwCLICK)
        THEN IF Len(parts) >= 3 /\ IsInt(parts[2]) /\ IsInt(parts[3])
             THEN [type |-> tyClick, x |-> ToInt(parts[2]), y |-> ToInt(parts[3])]
             ELSE UnknownAction(action_text)
        ELSE IF StartsWith(action, kwTYPE)
        THEN [type |-> tyType, text |-> Unquote(Strip(DropFirst(action, 4)))]
        ELSE IF StartsWith(action, kwPRESS)
        THEN [type |-> tyPress, key |-> Lower(Unquote(Strip(DropFirst(action, 5))))]
        ELSE IF StartsWith(action, kwWAIT)
        THEN [type |-> tyWait, duration |-> WaitDuration(parts)]
        ELSE IF StartsWith(action, kwSCROLL)
        THEN [type |-> tyScroll,
              direction |-> IF Contains(action, kwUP) THEN "up" ELSE "down"]
        ELSE IF StartsWith(action, kwRUN)
        THEN [type |-> tyRun, cmd |-> Unquote(Strip(DropFirst(action, 3)))]
        ELSE IF StartsWith(action, kwLAUNCH)
        THEN LET app == Unquote(Strip(DropFirst(action, 6)))
             IN  IF Contains(Upper(app), kwCHROME)
                 THEN [type |-> tyLaunchChrome]
                 ELSE [type |-> tyLaunch, app |-> app]
        ELSE UnknownAction(action_text)

(***************************************************************************)
(* ActionExecutor.execute_action.  An action is a dict: a record whose     *)
(* keys may be missing.  The host is an input: "ok", "raises" (the driver  *)
(* call of this action raises) or "refused" (the application launcher      *)
(* reports that nothing could be launched).  The result is                 *)
(* <<success, message>>, the message kept as its fixed text and the value  *)
(* formatted into it.                                                      *)
(***************************************************************************)
Hosts == {"ok", "raises", "refused"}

\* None, where the str under an action's 'type' is expected: no text has
\* this value, a text being made of single characters
NoType == <<"None">>

\* dict.get(key, default)
Get(d, key, default) == IF key \in DOMAIN d THEN d[key] ELSE default

Message(text, arg) == [text |-> text, arg |-> arg]

\* the fixed part of the message for a type the dispatcher does not know
msgUnknownType ==
    <<"U","n","k","n","o","w","n"," ","a","c","t","i","o","n"," ",
      "t","y","p","e",":"," ">>

ErrorResult == <<FALSE, Message("Error: ", "exception")>>

\* a mutant of keyboard_call: the key text is pressed as one key
keyboard_call_single(key) == [method |-> "press_key", keys |-> <<key>>]

\* the press branch's call of the keyboard controller: hotkey(*keys) with
\* the stripped pieces of key.split('+'), or press_key(key)
keyboard_call(key) ==
    IF Contains(key, <<"+">>)
    THEN LET pieces == SplitOn(key, "+") IN
         [method |-> "hotkey",
          keys |-> [i \in 1..Len(pieces) |-> Strip(pieces[i])]]
    ELSE [method |-> "press_key", keys |-> <<key>>]
\* the action types execute_action hands to MouseController.click,
\* double_click, right_click and drag_to
MouseTypes == {tyClick, tyDoubleClick, tyRightClick, tyDrag}

\* the call execute_action makes of the mouse controller.  With a host
\* whose driver raises, move_to catches the exception and returns False,
\* and click returns False after it; double_click and right_click make
\* the same call of click and return nothing; drag_to does not look at
\* move_to's result, and what dragTo raises leaves it.  returned is the
\* value the method gives back, failed whether the operation reported a
\* failure: click returned False, or drag_to raised.
mouse_call(action, host) ==
    LET action_type == Lower(Get(action, "type", << >>)) IN
    CASE action_type = tyClick ->
            [method |-> "click",
             returned |-> IF host = "raises" THEN "False" ELSE "True",
             failed |-> host = "raises"]
      [] action_type = tyDoubleClick ->
            [method |-> "double_click", returned |-> "None",
             failed |-> host = "raises"]
      [] action_type = tyRightClick ->
            [method |-> "right_click", returned |-> "None",
             failed |-> host = "raises"]
      [] OTHER ->
            [method |-> "drag_to",
             returned |-> IF host = "raises" THEN "raised" ELSE "None",
             failed |-> host = "raises"]
\* action.get('type', '').lower() is evaluated before the try statement:
\* None has no lower(), and the AttributeError leaves execute_action
execute_action_raises(action) == Get(action, "type", << >>) = NoType

\* execute_action, when it returns
execute_action(action, host) ==
    LET action_type == Lower(Get(action, "type", << >>)) IN
    CASE action_type = tyClick ->
            \* MouseController.click catches what the driver raises, and its
            \* result is not looked at
            <<TRUE, Message("Clicked at ", <<Get(action, "x", "None"),
                                             Get(action, "y", "None")>>)>>
      [] action_type = tyType ->
            LET text == Get(action, "text", << >>) IN
            IF host = "raises" /\ text # << >> THEN ErrorResult
            ELSE <<TRUE, Message("Typed text: ", SubSeq(text, 1, Min(20, Len(text))))>>
      [] action_type = tyPress ->
            LET key == Get(action, "key", << >>) IN
            IF host = "raises" THEN ErrorResult
            ELSE IF Contains(key, <<"+">>)
                 THEN <<TRUE, Message("Pressed hotkey: ", key)>>
                 ELSE <<TRUE, Message("Pressed key: ", key)>>
      [] action_type = tyWait ->
            LET duration == Get(action, "duration", DefaultWait) IN
            IF duration < 0 THEN ErrorResult
            ELSE <<TRUE, Message("Waited for ", duration)>>
      [] action_type = tyScroll ->
            IF host = "raises" THEN ErrorResult
            ELSE <<TRUE, Message("Scrolled ", Get(action, "direction", "down"))>>
      [] action_type \in {tyDoubleClick, tyRightClick} ->
            \* MouseController.double_click and right_click call click, which
            \* catches what the driver raises; they return nothing
            <<TRUE, Message("Done: ", action_type)>>
      [] action_type \in {tyDrag, tyScreenshot} ->
            IF host = "raises" THEN ErrorResult
            ELSE <<TRUE, Message("Done: ", action_type)>>
      [] action_type = tyRun ->
            IF host = "raises" \/ "cmd" \notin DOMAIN action THEN ErrorResult
            ELSE <<TRUE, Message("Ran command: ", action.cmd)>>
      [] action_type = tyLaunch ->
            LET app_name == Get(action, "app", << >>) IN
            IF host = "raises" THEN ErrorResult
            ELSE IF host = "refused"
                 THEN <<FALSE, Message("Failed to launch: ", app_name)>>
                 ELSE <<TRUE, Message("Launched app: ", app_name)>>
      [] action_type = tyLaunchChrome ->
            IF host = "raises" THEN ErrorResult
            ELSE IF host = "refused"
                 THEN <<FALSE, Message("Failed to launch Chrome", "")>>
                 ELSE <<TRUE, Message("Launched Chrome", "")>>
      [] OTHER ->
            <<FALSE, Message("Unknown action type: ", action_type)>>

(***************************************************************************)
(* ScreenAnalyzer: the single-slot perception cache.  An observation is    *)
(* the number of the capture that produced it and the screen it saw; the   *)
(* screen is the number of changes the host's display has gone through.    *)
(***************************************************************************)
\* None, where an analysis is expected
NoAnalysis == [id |-> 0, raw_text |-> -1]

NewPerception == [_cached_analysis |-> NoAnalysis, captures |-> 0, shutdown |-> FALSE]

\* a mutant of UsesCache: the cache is never consulted
UsesCacheNever(p, force_new) == FALSE

\* the branch of analyze_current_screen that returns the cached analysis
UsesCache(p, force_new) == ~force_new /\ p._cached_analysis # NoAnalysis

\* the analysis dict built from a fresh capture of the screen
Capture(p, scr) == [id |-> p.captures + 1, raw_text |-> scr]

\* analyze_current_screen, when it returns: the analyzer after the call
analyze_current_screen(p, force_new, scr) ==
    IF UsesCache(p, force_new)
    THEN p
    ELSE [p EXCEPT !._cached_analysis = Capture(p, scr),
                   !.captures = p.captures + 1]

\* analyze_current_screen, when the capture or the worker pool raises:
\* the screenshot call was made and nothing is cached
analyze_raises(p) == [p EXCEPT !.captures = p.captures + 1]

\* whether the call raises: a backend failure, or the pool was shut down
AnalyzeFails(p, force_new, backend) ==
    /\ ~UsesCache(p, force_new)
    /\ (backend = "raises" \/ p.shutdown)

\* a mutant of clear_cache: the cached analysis is kept
clear_cache_kept(p) == p

clear_cache(p) == [p EXCEPT !._cached_analysis = NoAnalysis]

shutdown(p) == [p EXCEPT !.shutdown = TRUE]

(***************************************************************************)
(* ContextManager.                                                         *)
(***************************************************************************)
max_history == 20

\* None, where a task description is expected
NoTask == "None"

\* None, where a text is expected
NoText == << >>

\* start_time is None, or the time start_task set: "set"
NewContext ==
    [current_task |-> NoTask, task_status |-> "idle", start_time |-> "None",
     current_plan |-> << >>,
     current_step_index |-> -1, screen_history |-> << >>,
     action_history |-> << >>]

\* a mutant of DequeAppend: the deque has no maxlen
DequeAppendUnbounded(q, e, n) == Append(q, e)

\* deque(maxlen=n).append(e)
DequeAppend(q, e, n) ==
    IF Len(q) >= n THEN Append(Tail(q), e) ELSE Append(q, e)

start_task(ctx, task_description) ==
    [ctx EXCEPT !.current_task = task_description,
                !.task_status = "in_progress",
                !.start_time = "set",
                !.current_plan = << >>,
                !.current_step_index = -1,
                !.screen_history = << >>,
                !.action_history = << >>]

set_plan(ctx, plan) ==
    [ctx EXCEPT !.current_plan = plan,
                !.current_step_index = IF plan # << >> THEN 0 ELSE -1]

add_screen(ctx, analysis) ==
    [ctx EXCEPT !.screen_history = DequeAppend(@, analysis, max_history)]

\* a mutant of add_action: every entry is recorded as a success
add_action_unflagged(ctx, action, success, result) ==
    [ctx EXCEPT !.action_history =
        DequeAppend(@, [action |-> action, success |-> TRUE, result |-> result],
                    max_history)]
add_action(ctx, action, success, result) ==
    [ctx EXCEPT !.action_history =
        DequeAppend(@, [action |-> action, success |-> success, result |-> result],
                    max_history)]

\* set_task_completed, as far as it gets: the status is assigned first
set_task_completed(ctx) == [ctx EXCEPT !.task_status = "completed"]

\* set_task_failed, as far as it gets: the status is assigned first
\* a mutant of set_task_failed: the status is left as it is
set_task_failed_unrecorded(ctx) == ctx
set_task_failed(ctx) == [ctx EXCEPT !.task_status = "failed"]

\* duration = self.end_time - self.start_time, the statement that follows
\* the assignments in set_task_completed and set_task_failed: a TypeError
\* while start_time is None
duration_raises(ctx) == ctx.start_time = "None"

(***************************************************************************)
(* Inputs: the texts the language model and the planner may produce.       *)
(***************************************************************************)
txtClick == <<"C","L","I","C","K"," ","1","0"," ","1","0">>

txtWait == <<"W","A","I","T"," ","1">>

txtWaitNegative == <<"w","a","i","t"," ","-","1">>

txtLaunch == <<"L","A","U","N","C","H"," ",Quote,"a","p","p",Quote>>

txtGarbage == <<"F","O","O"," ","B","A","R">>

txtRetryUpper == <<"R","E","T","R","Y">>

txtRetryLower == <<"p","l","s"," ","r","e","t","r","y">>

txtAbort == <<"A","B","O","R","T">>

\* what decide_next_action's model call may answer
DecisionTexts == {txtClick, txtGarbage}

\* what handle_error's model call may answer
ErrorTexts == {txtRetryUpper, txtRetryLower, txtAbort}

\* the kinds of step a plan is made of: decision-driven (no details) or
\* deterministic
StepKinds ==
    { [description |-> "decide", details |-> << >>],
      [description |-> "wait then click", details |-> <<txtWait, txtClick>>],
      [description |-> "launch", details |-> <<txtLaunch>>] }

\* a step whose wait is for a negative time
NegativeWaitStep == [description |-> "wait", details |-> <<txtWaitNegative>>]

\* a mutant of Renumber: the steps keep the numbers they were parsed with
RenumberKept(steps) == steps

\* plan_task's renumbering: step i carries number i
Renumber(steps) ==
    [i \in 1..Len(steps) |->
        [number |-> i, description |-> steps[i].description,
         details |-> steps[i].details]]

\* the plans plan_task may return
PlannerOutputs ==
    UNION { { Renumber(f) : f \in [1..n -> StepKinds] } : n \in 1..MaxSteps }
        \cup { Renumber(<<NegativeWaitStep>>) }

\* the task descriptions the owner submits, each once: the execution loop
\* runs one plan per task
Tasks == {"open app"}

\* every detail line of every plan the planner may return
DetailTexts ==
    UNION { { kind.details[i] : i \in 1..Len(kind.details) } :
                kind \in StepKinds \cup {NegativeWaitStep} }

(***************************************************************************)
(* The pure parts of _execute_plan.                                        *)
(***************************************************************************)
\* a mutant of RetryCursor: the rewind is not clamped at 0
RetryCursorUnclamped(i) == i - 2

\* the retry branch's cursor for the failed step i
RetryCursor(i) == Max(0, i - 2)

\* a mutant of SignalsRetry: every answer counts as a retry
SignalsRetryAlways(text) == TRUE

\* a mutant of SignalsRetry: the answer is not upper-cased before the search
SignalsRetryExact(text) == Contains(text, kwRETRY)

\* "RETRY" in error_handling_result.upper()
SignalsRetry(text) == Contains(Upper(text), kwRETRY)

\* detail.upper().startswith("WAIT")
IsWaitDetail(detail) == StartsWith(Upper(detail), kwWAIT)

\* detail.upper().startswith("CLICK ")
IsClickDetail(detail) == StartsWith(Upper(detail), kwCLICKsp)

\* the direct click of a CLICK detail: the coordinates parse, the pointer
\* moves, its position is read and the click is reported done
DirectClick(detail, host) ==
    LET parts == Split(Upper(detail)) IN
    /\ Len(parts) >= 3
    /\ IsInt(parts[2])
    /\ IsInt(parts[3])
    /\ host = "ok"

(***************************************************************************)
(* The pure functions above, tabulated once over the inputs of the model.  *)
(***************************************************************************)
\* decide_next_action: _parse_action(response.strip())
DecidedAction == [t \in DecisionTexts |-> _parse_action(Strip(t))]

\* the standard action parsing of a detail line
DetailAction == [t \in DetailTexts |-> _parse_action(t)]

\* how the loop treats a detail line: a WAIT, a direct CLICK, or a line for
\* the standard parsing; the wait's duration
DetailKind ==
    [t \in DetailTexts |->
        IF IsWaitDetail(t) THEN "wait"
        ELSE IF IsClickDetail(t) THEN "click" ELSE "other"]

DetailWait == [t \in DetailTexts |-> WaitDuration(Split(t))]

DetailClick == [t \in DetailTexts |-> [h \in Hosts |-> DirectClick(t, h)]]

Retries == [t \in ErrorTexts |-> SignalsRetry(t)]

Dispatched ==
    [a \in {DecidedAction[t] : t \in DecisionTexts}
            \cup {DetailAction[t] : t \in DetailTexts}
       |-> [h \in Hosts |-> execute_action(a, h)]]

(***************************************************************************)
(* execute_parallel_tasks: one worker of the thread pool per task, all of  *)
(* them running _process_task on the one AgentCore.                        *)
(***************************************************************************)
\* the task_descriptions handed to execute_parallel_tasks
ParallelTasks == <<"task a", "task b">>

Workers == 1..Len(ParallelTasks)

\* longest plan of a parallel task
MaxParallelSteps == 2

\* the plans plan_task may return to a worker: decision-driven steps
ParallelPlans ==
    { Renumber([i \in 1..n |-> [description |-> "decide", details |-> << >>]]) :
        n \in 1..MaxParallelSteps }

\* a worker before its task is submitted: its task, the locals of
\* _process_task and _execute_plan, and what it has read so far: the task
\* texts handed to the planner and to the decision maker, the plan it set,
\* the captures it made and the observations it decided on
NewWorker(task) ==
    [pc |-> "idle", task |-> task, plan |-> << >>, idx |-> 0,
     success |-> FALSE, asked |-> << >>, own_plan |-> << >>,
     decided_for |-> << >>, captured |-> {}, observed |-> << >>]

(***************************************************************************)
(* State.                                                                  *)
(***************************************************************************)
VARIABLES
    is_running,     \* AgentCore.is_running
    is_paused,      \* AgentCore.is_paused
    task_queue,     \* AgentCore.task_queue
    current_task,   \* AgentCore.current_task
    context,        \* AgentCore.context
    perception,     \* AgentCore.perception
    session_log,    \* AgentCore.history.session_log (event types and data)
    screen,         \* the host's display: the number of changes it went through
    owner,          \* where the owning thread is: idle, inside stop() or execute_task()
    submitted,      \* the tasks execute_task was called with, in order
    pc,             \* where the agent-loop thread is
    plan,           \* _execute_plan's local plan
    idx,            \* _execute_plan's loop index (1-based)
    k,              \* position in the details of a deterministic step
    step_succeeded, \* _execute_plan's local step_succeeded
    analysis,       \* _execute_plan's local analysis
    error_handling_result, \* _execute_plan's local error_handling_result
    success,        \* the value _process_current_task returns
    events,         \* what the loop did for the task at hand, in order
    workers         \* the workers of execute_parallel_tasks: where each is,
                    \* its locals, and what it read from the shared objects

vars == <<is_running, is_paused, task_queue, current_task, context, perception,
          session_log, screen, owner, submitted, pc, plan, idx, k,
          step_succeeded, analysis, error_handling_result, success, events,
          workers>>

ownerVars == <<is_running, is_paused, owner, submitted>>

localVars == <<plan, idx, k, step_succeeded, analysis, error_handling_result>>

Event(what, step, data) == [what |-> what, step |-> step, data |-> data]

Init ==
    /\ is_running = FALSE
    /\ is_paused = FALSE
    /\ task_queue = << >>
    /\ current_task = NoTask
    /\ context = NewContext
    /\ perception = NewPerception
    /\ session_log = << [type |-> "session_start"] >>
    /\ screen = 0
    /\ owner = "idle"
    /\ submitted = << >>
    /\ pc = "unstarted"
    /\ plan = << >>
    /\ idx = 0
    /\ k = 0
    /\ step_succeeded = FALSE
    /\ analysis = NoAnalysis
    /\ error_handling_result = NoText
    /\ success = FALSE
    /\ events = << >>
    /\ workers = [w \in Workers |-> NewWorker(ParallelTasks[w])]

(***************************************************************************)
(* The owner's calls: start, stop, pause, resume, execute_task.            *)
(***************************************************************************)
\* start(): one agent-loop thread is modelled, so a restart is taken only
\* once the earlier loop thread has ended
Start ==
    /\ owner = "idle"
    /\ ~is_running
    /\ pc \in {"unstarted", "terminated"}
    /\ is_running' = TRUE
    /\ is_paused' = FALSE
    /\ pc' = "loop"
    /\ UNCHANGED <<workers, task_queue, current_task, context, perception, session_log,
                   screen, owner, submitted, localVars, success, events>>

\* stop(), up to the join with its timeout
Stop ==
    /\ owner = "idle"
    /\ is_running
    /\ is_running' = FALSE
    /\ owner' = "joining"
    /\ UNCHANGED <<workers, is_paused, task_queue, current_task, context, perception,
                   session_log, screen, submitted, pc, localVars, success, events>>

\* stop(), after the join returned or timed out: _cleanup_resources
StopCleanup ==
    /\ owner = "joining"
    /\ perception' = shutdown(perception)
    /\ owner' = "idle"
    /\ UNCHANGED <<workers, is_running, is_paused, task_queue, current_task, context,
                   session_log, screen, submitted, pc, localVars, success, events>>

Pause ==
    /\ owner = "idle"
    /\ ~is_paused
    /\ is_paused' = TRUE
    /\ UNCHANGED <<workers, is_running, task_queue, current_task, context, perception,
                   session_log, screen, owner, submitted, pc, localVars, success,
                   events>>

Resume ==
    /\ owner = "idle"
    /\ is_paused
    /\ is_paused' = FALSE
    /\ UNCHANGED <<workers, is_running, task_queue, current_task, context, perception,
                   session_log, screen, owner, submitted, pc, localVars, success,
                   events>>

\* execute_task(), up to task_queue.put
ExecuteTaskPut ==
    /\ owner = "idle"
    /\ is_running
    /\ \E t \in Tasks :
         /\ \A i \in 1..Len(submitted) : submitted[i] # t
         /\ submitted' = Append(submitted, t)
         /\ task_queue' = Append(task_queue, t)
    /\ owner' = "submitting"
    /\ UNCHANGED <<workers, is_running, is_paused, current_task, context, perception,
                   session_log, screen, pc, localVars, success, events>>

\* execute_task(), from context.start_task on
ExecuteTaskRecord ==
    /\ owner = "submitting"
    /\ context' = start_task(context, submitted[Len(submitted)])
    /\ session_log' = Append(session_log,
                             [type |-> "task_start",
                              data |-> submitted[Len(submitted)]])
    /\ owner' = "idle"
    /\ UNCHANGED <<workers, is_running, is_paused, task_queue, current_task, perception,
                   screen, submitted, pc, localVars, success, events>>

(***************************************************************************)
(* The agent-loop thread: _agent_loop, _process_current_task and           *)
(* _execute_plan, one action per stretch of code between two points where  *)
(* the owner's calls can be seen.                                          *)
(***************************************************************************)
Log(e) == events' = Append(events, e)

Log2(e1, e2) == events' = events \o <<e1, e2>>

ResetLocals ==
    /\ plan' = << >>
    /\ idx' = 0
    /\ k' = 0
    /\ step_succeeded' = FALSE
    /\ analysis' = NoAnalysis
    /\ error_handling_result' = NoText

\* `return value` out of _process_current_task or _execute_plan
Return(value) ==
    /\ success' = value
    /\ pc' = "finish"

\* a mutant of NextIndex: the for statement takes the same step again
NextIndexStays(i) == i

\* enumerate(plan, start=1): the index that follows i
NextIndex(i) == i + 1

\* the end of one pass through the loop body, by `continue` or by falling
\* through: the for statement takes the next step, or the loop is over and
\* _execute_plan returns True
Continue ==
    IF NextIndex(idx) > Len(plan)
    THEN /\ Return(TRUE)
         /\ UNCHANGED idx
    ELSE /\ idx' = NextIndex(idx)
         /\ pc' = "step"
         /\ UNCHANGED success

\* _agent_loop: the loop thread ends once is_running is false
AgentLoopExit ==
    /\ pc = "loop"
    /\ ~is_running
    /\ pc' = "terminated"
    /\ UNCHANGED <<workers, ownerVars, task_queue, current_task, context, perception,
                   session_log, screen, localVars, success, events>>

\* _agent_loop: running, not paused and a task is queued: take it
AgentLoopGet ==
    /\ pc = "loop"
    /\ is_running
    /\ ~is_paused
    /\ task_queue # << >>
    /\ current_task' = Head(task_queue)
    /\ task_queue' = Tail(task_queue)
    /\ pc' = "process"
    /\ events' = << >>
    /\ UNCHANGED <<workers, ownerVars, context, perception, session_log, screen,
                   localVars, success>>

\* a mutant of NoPlan: no plan counts as empty
NoPlanNever(p) == FALSE

\* `not plan`
NoPlan(p) == p = << >>

\* _process_current_task up to set_plan; the capture and analysis may raise,
\* and so may the planner
ProcessCurrentTask ==
    /\ pc = "process"
    /\ \E backend \in {"ok", "raises"}, planner \in {"ok", "raises"},
          p \in PlannerOutputs :
         LET cleared == clear_cache(perception) IN
         IF AnalyzeFails(cleared, TRUE, backend)
         THEN /\ perception' = analyze_raises(cleared)
              /\ Return(FALSE)
              /\ Log(Event("raised", 0, "analyze"))
              /\ UNCHANGED context
         ELSE LET seen == analyze_current_screen(cleared, TRUE, screen) IN
              /\ perception' = seen
              /\ IF planner = "raises"
                 THEN /\ context' = add_screen(context, seen._cached_analysis)
                      /\ Return(FALSE)
                      /\ Log(Event("raised", 0, "planner"))
                 ELSE IF NoPlan(p)
                 THEN /\ context' = add_screen(context, seen._cached_analysis)
                      /\ Return(FALSE)
                      /\ Log(Event("empty_plan", 0, ""))
                 ELSE /\ context' =
                           set_plan(add_screen(context, seen._cached_analysis), p)
                      /\ pc' = "execute"
                      /\ UNCHANGED <<success, events>>
    /\ UNCHANGED <<workers, ownerVars, task_queue, current_task, session_log, screen,
                   localVars>>

\* _execute_plan: read the plan from the context
ExecutePlanEntry ==
    /\ pc = "execute"
    /\ IF NoPlan(context.current_plan)
       THEN /\ Return(FALSE)
            /\ Log(Event("no_plan", 0, ""))
            /\ UNCHANGED <<plan, idx>>
       ELSE /\ plan' = context.current_plan
            /\ idx' = 1
            /\ pc' = "step"
            /\ UNCHANGED <<success, events>>
    /\ UNCHANGED <<workers, ownerVars, task_queue, current_task, context, perception,
                   session_log, screen, k, step_succeeded, analysis,
                   error_handling_result>>

\* the check for pause/stop at the top of a step: interrupted
StepInterrupted ==
    /\ pc = "step"
    /\ (~is_running \/ is_paused)
    /\ Return(FALSE)
    /\ Log(Event("interrupted", idx, [running |-> is_running, paused |-> is_paused]))
    /\ UNCHANGED <<workers, ownerVars, task_queue, current_task, context, perception,
                   session_log, screen, localVars>>

\* a mutant of HasDetails: no step is taken as a deterministic one
HasDetailsNever(step) == FALSE

\* `if details:`, the details of the step being non-empty
HasDetails(step) == step.details # << >>

\* the check passed: the step is a deterministic one or a decision-driven one
StepBegin ==
    /\ pc = "step"
    /\ is_running /\ ~is_paused
    /\ IF HasDetails(plan[idx])
       THEN /\ pc' = "detail"
            /\ k' = 1
            /\ step_succeeded' = FALSE
       ELSE /\ pc' = "observe"
            /\ UNCHANGED <<k, step_succeeded>>
    /\ Log(Event("step", idx, ""))
    /\ UNCHANGED <<workers, ownerVars, task_queue, current_task, context, perception,
                   session_log, screen, plan, idx, analysis,
                   error_handling_result, success>>

\* a mutant of Succeeded: the last detail alone decides
SucceededLast(before, ok) == ok

\* step_succeeded after one more detail: set once a detail succeeds, never reset
Succeeded(before, ok) == before \/ ok

\* the detail loop is over after detail number j of step i
LastDetail(i, j) == j >= Len(plan[i].details)

AfterDetail ==
    IF LastDetail(idx, k)
    THEN pc' = "evaluate" /\ UNCHANGED k
    ELSE pc' = "detail" /\ k' = k + 1

\* one detail line of a deterministic step
Detail ==
    /\ pc = "detail"
    /\ \E host \in Hosts :
         LET detail == plan[idx].details[k] IN
         IF DetailKind[detail] = "wait"
         THEN IF DetailWait[detail] < 0
              THEN \* time.sleep raises out of _execute_plan
                   /\ Return(FALSE)
                   /\ Log(Event("raised", idx, "sleep"))
                   /\ UNCHANGED <<k, step_succeeded, context, screen>>
              ELSE /\ step_succeeded' = Succeeded(step_succeeded, TRUE)
                   /\ AfterDetail
                   /\ Log(Event("detail", idx, [k |-> k, ok |-> TRUE]))
                   /\ UNCHANGED <<context, screen, success>>
         ELSE IF DetailKind[detail] = "click"
         THEN LET ok == DetailClick[detail][host] IN
              /\ step_succeeded' = Succeeded(step_succeeded, ok)
              /\ screen' = IF ok THEN screen + 1 ELSE screen
              /\ AfterDetail
              /\ Log(Event("detail", idx, [k |-> k, ok |-> ok]))
              /\ UNCHANGED <<context, success>>
         ELSE LET action == DetailAction[detail]
                  res == Dispatched[action][host]
              IN  /\ context' = add_action(context, action, res[1], res[2])
                  /\ step_succeeded' = Succeeded(step_succeeded, res[1])
                  /\ screen' = IF res[1] THEN screen + 1 ELSE screen
                  /\ AfterDetail
                  /\ Log(Event("detail", idx, [k |-> k, ok |-> res[1]]))
                  /\ UNCHANGED success
    /\ UNCHANGED <<workers, ownerVars, task_queue, current_task, perception, session_log,
                   plan, idx, analysis, error_handling_result>>

\* a mutant of FinalStepFailed: a failed last step is let through
FinalStepNeverFails(ok, i, n) == FALSE

\* a mutant of FinalStepFailed: a failed step fails the plan wherever it is
AnyStepFails(ok, i, n) == ~ok

\* "all fallback attempts failed in final step"
FinalStepFailed(ok, i, n) == ~ok /\ i = n

\* after the details of a deterministic step: a failed last step fails the
\* plan, anything else goes on to the next step
EvaluateStep ==
    /\ pc = "evaluate"
    /\ IF FinalStepFailed(step_succeeded, idx, Len(plan))
       THEN Return(FALSE) /\ UNCHANGED idx
       ELSE Continue
    /\ Log(Event("evaluated", idx, step_succeeded))
    /\ UNCHANGED <<workers, ownerVars, task_queue, current_task, context, perception,
                   session_log, screen, plan, k, step_succeeded, analysis,
                   error_handling_result>>

\* a mutant of RefreshBefore: the cache is cleared before no step
RefreshBeforeNever(i) == FALSE

\* a mutant of RefreshBefore: the cache is cleared before every step
RefreshBeforeEvery(i) == i >= 1

\* a decision-driven step clears the cache first unless it is the first step
RefreshBefore(i) == i > 1

\* a decision-driven step: clear the cache (not for step 1), observe, record
Observe ==
    /\ pc = "observe"
    /\ \E backend \in {"ok", "raises"} :
         LET cleared == IF RefreshBefore(idx) THEN clear_cache(perception)
                        ELSE perception
             before  == IF RefreshBefore(idx)
                        THEN << Event("clear_before", idx, "") >> ELSE << >>
         IN
         IF AnalyzeFails(cleared, FALSE, backend)
         THEN /\ perception' = analyze_raises(cleared)
              /\ Return(FALSE)
              /\ events' = events \o before \o
                    << Event("raised", idx, IF backend = "raises" THEN "analyze"
                                            ELSE "shutdown") >>
              /\ UNCHANGED <<context, analysis>>
         ELSE LET seen == analyze_current_screen(cleared, FALSE, screen) IN
              /\ perception' = seen
              /\ analysis' = seen._cached_analysis
              /\ context' = add_screen(context, seen._cached_analysis)
              /\ pc' = "decide"
              /\ events' = events \o before \o
                    << Event("observe", idx,
                             [id |-> seen._cached_analysis.id,
                              captured |-> seen.captures # cleared.captures]) >>
              /\ UNCHANGED success
    /\ UNCHANGED <<workers, ownerVars, task_queue, current_task, session_log, screen,
                   plan, idx, k, step_succeeded, error_handling_result>>

\* a decision-driven step: decide, dispatch, record, and on failure ask
\* handle_error whether to retry or abort; either call of the decision maker
\* may raise
DecideAndAct ==
    /\ pc = "decide"
    /\ \E text \in DecisionTexts, host \in Hosts, err \in ErrorTexts,
          model \in {"ok", "decide_raises", "handle_error_raises"} :
         LET action == DecidedAction[text]
             res    == Dispatched[action][host]
             ctx1   == add_action(context, action, res[1], res[2])
         IN
         IF model = "decide_raises"
         THEN /\ Return(FALSE)
              /\ Log(Event("raised", idx, "decide"))
              /\ UNCHANGED <<session_log, context, perception, screen, idx,
                             error_handling_result>>
         ELSE
         /\ session_log' = Append(session_log,
                                  [type |-> "action", data |-> res[1]])
         /\ IF ~res[1] /\ model = "handle_error_raises"
            THEN /\ context' = ctx1
                 /\ Return(FALSE)
                 /\ Log2(Event("dispatch", idx, FALSE),
                         Event("raised", idx, "handle_error"))
                 /\ UNCHANGED <<perception, screen, idx, error_handling_result>>
            ELSE IF ~res[1]
            THEN /\ error_handling_result' = err
                 /\ UNCHANGED <<perception, screen>>
                 /\ IF Retries[err]
                    THEN /\ context' = [ctx1 EXCEPT !.current_step_index =
                                                        RetryCursor(idx)]
                         /\ Continue
                         /\ Log2(Event("dispatch", idx, FALSE),
                                 Event("handle_error", idx, "retry"))
                    ELSE /\ context' = ctx1
                         /\ Return(FALSE)
                         /\ UNCHANGED idx
                         /\ Log2(Event("dispatch", idx, FALSE),
                                 Event("handle_error", idx, "abort"))
            ELSE /\ context' = ctx1
                 /\ perception' = clear_cache(perception)
                 /\ screen' = screen + 1
                 /\ Continue
                 /\ Log2(Event("dispatch", idx, TRUE),
                         Event("clear_after", idx, ""))
                 /\ UNCHANGED error_handling_result
    /\ UNCHANGED <<workers, ownerVars, task_queue, current_task, plan, k, step_succeeded,
                   analysis>>

\* _agent_loop after _process_current_task returned: record the outcome.
\* What set_task_completed or set_task_failed raises is caught by the loop's
\* own except clause, which sets is_running to False and ends the thread.
Finish ==
    /\ pc = "finish"
    /\ current_task' = NoTask
    /\ session_log' = Append(session_log, [type |-> "task_end", data |-> success])
    /\ context' = IF success THEN set_task_completed(context)
                  ELSE set_task_failed(context)
    /\ IF duration_raises(context)
       THEN /\ is_running' = FALSE
            /\ pc' = "terminated"
       ELSE /\ pc' = "loop"
            /\ UNCHANGED is_running
    /\ ResetLocals
    /\ UNCHANGED <<workers, is_paused, owner, submitted, task_queue, perception,
                   screen, success, events>>

Next ==
    \/ Start
    \/ Stop
    \/ StopCleanup
    \/ Pause
    \/ Resume
    \/ ExecuteTaskPut
    \/ ExecuteTaskRecord
    \/ AgentLoopExit
    \/ AgentLoopGet
    \/ ProcessCurrentTask
    \/ ExecutePlanEntry
    \/ StepInterrupted
    \/ StepBegin
    \/ Detail
    \/ EvaluateStep
    \/ Observe
    \/ DecideAndAct
    \/ Finish

Spec == Init /\ [][Next]_vars

\* the steps of the agent-loop thread
LoopThreadNext ==
    \/ AgentLoopExit
    \/ AgentLoopGet
    \/ ProcessCurrentTask
    \/ ExecutePlanEntry
    \/ StepInterrupted
    \/ StepBegin
    \/ Detail
    \/ EvaluateStep
    \/ Observe
    \/ DecideAndAct
    \/ Finish

\* The agent under fair scheduling: the loop thread goes on whenever it can
\* take a step, its poll of the queue every half second finds the agent not
\* paused sooner or later if it is not paused again and again, and the
\* owner's execute_task runs to its end.
FairSpec ==
    /\ Spec
    /\ WF_vars(LoopThreadNext)
    /\ SF_vars(AgentLoopGet)
    /\ WF_vars(ExecuteTaskRecord)

(***************************************************************************)
(* The perception cache on its own: any sequence of observe and invalidate *)
(* calls, on a screen that changes in between.                             *)
(***************************************************************************)
cacheFrame ==
    <<is_running, is_paused, task_queue, current_task, context, session_log,
      owner, submitted, pc, plan, idx, k, step_succeeded,
      error_handling_result, success>>

\* analyze_current_screen(force_new) returns
CacheObserve ==
    /\ Len(events) < MaxCalls
    /\ \E force_new \in BOOLEAN :
         LET seen == analyze_current_screen(perception, force_new, screen) IN
         /\ perception' = seen
         /\ analysis' = seen._cached_analysis
         /\ Log(Event("observe", 0, [force_new |-> force_new]))
    /\ UNCHANGED <<workers, cacheFrame, screen>>

\* analyze_current_screen(force_new) raises: the capture backend fails
CacheObserveRaises ==
    /\ Len(events) < MaxCalls
    /\ \E force_new \in BOOLEAN :
         /\ AnalyzeFails(perception, force_new, "raises")
         /\ perception' = analyze_raises(perception)
         /\ Log(Event("observe_raised", 0, [force_new |-> force_new]))
    /\ UNCHANGED <<workers, cacheFrame, screen, analysis>>

\* clear_cache()
CacheInvalidate ==
    /\ Len(events) < MaxCalls
    /\ perception' = clear_cache(perception)
    /\ Log(Event("invalidate", 0, ""))
    /\ UNCHANGED <<workers, cacheFrame, screen, analysis>>

\* the display changes
ScreenChanges ==
    /\ screen < MaxCalls
    /\ screen' = screen + 1
    /\ UNCHANGED <<workers, cacheFrame, perception, analysis, events>>

NextCache ==
    \/ CacheObserve
    \/ CacheObserveRaises
    \/ CacheInvalidate
    \/ ScreenChanges

SpecCache == Init /\ [][NextCache]_vars

(***************************************************************************)
(* Parallel tasks: execute_parallel_tasks submits _process_task once per   *)
(* task to the thread pool.  The workers share the AgentCore: its context, *)
(* current_task, perception and history.  A worker's step between two      *)
(* accesses that another worker can see in between is one action.          *)
(***************************************************************************)
parallelFrame ==
    <<is_running, is_paused, task_queue, owner, pc, plan, idx, k,
      step_succeeded, analysis, error_handling_result, success, events>>

\* _process_task or _process_current_task returns value
WorkerReturns(me, value) == [me EXCEPT !.pc = "finish", !.success = value]

\* execute_parallel_tasks: one turn of its for loop
ParallelSubmit ==
    /\ owner = "idle"
    /\ is_running
    /\ Len(submitted) < Len(ParallelTasks)
    /\ LET w == Len(submitted) + 1 IN
       /\ context' = start_task(context, ParallelTasks[w])
       /\ session_log' = Append(session_log,
                                [type |-> "task_start", data |-> ParallelTasks[w]])
       /\ submitted' = Append(submitted, ParallelTasks[w])
       /\ workers' = [workers EXCEPT ![w].pc = "begin"]
    /\ UNCHANGED <<parallelFrame, current_task, perception, screen>>

\* _process_task: self.current_task = task_description
WorkerBegin(w) ==
    /\ workers[w].pc = "begin"
    /\ current_task' = workers[w].task
    /\ workers' = [workers EXCEPT ![w].pc = "process"]
    /\ UNCHANGED <<parallelFrame, submitted, context, perception, session_log,
                   screen>>

\* _process_current_task up to set_plan, the planner asked with
\* self.current_task as it is then
WorkerProcess(w) ==
    /\ workers[w].pc = "process"
    /\ \E backend \in {"ok", "raises"}, p \in ParallelPlans :
         LET me == workers[w]
             cleared == clear_cache(perception)
         IN
         IF AnalyzeFails(cleared, TRUE, backend)
         THEN /\ perception' = analyze_raises(cleared)
              /\ workers' = [workers EXCEPT ![w] = WorkerReturns(me, FALSE)]
              /\ UNCHANGED context
         ELSE LET seen == analyze_current_screen(cleared, TRUE, screen) IN
              /\ perception' = seen
              /\ context' = set_plan(add_screen(context, seen._cached_analysis), p)
              /\ workers' = [workers EXCEPT ![w] =
                    [me EXCEPT !.pc = "execute",
                               !.asked = Append(@, current_task),
                               !.own_plan = p,
                               !.captured = @ \cup {seen._cached_analysis.id}]]
    /\ UNCHANGED <<parallelFrame, submitted, current_task, session_log, screen>>

\* _execute_plan: read the plan from the context
WorkerEntry(w) ==
    /\ workers[w].pc = "execute"
    /\ LET me == workers[w] IN
       workers' = [workers EXCEPT ![w] =
            IF context.current_plan = << >>
            THEN WorkerReturns(me, FALSE)
            ELSE [me EXCEPT !.pc = "step", !.plan = context.current_plan,
                            !.idx = 1]]
    /\ UNCHANGED <<parallelFrame, submitted, current_task, context, perception,
                   session_log, screen>>

\* the worker after a pass through the loop body: the next step, or the
\* loop is over and _execute_plan returns True
WorkerContinue(me) ==
    IF NextIndex(me.idx) > Len(me.plan)
    THEN WorkerReturns(me, TRUE)
    ELSE [me EXCEPT !.idx = NextIndex(me.idx)]

\* one decision-driven step of _execute_plan: the check for pause and stop,
\* the observation, the decision made for self.current_task as it is then,
\* the dispatch and what follows it
WorkerStep(w) ==
    /\ workers[w].pc = "step"
    /\ LET me == workers[w] IN
       IF ~is_running \/ is_paused
       THEN /\ workers' = [workers EXCEPT ![w] = WorkerReturns(me, FALSE)]
            /\ UNCHANGED <<context, perception, session_log, screen>>
       ELSE \E backend \in {"ok", "raises"}, text \in DecisionTexts,
               host \in Hosts, err \in ErrorTexts :
            LET cleared == IF RefreshBefore(me.idx) THEN clear_cache(perception)
                           ELSE perception
            IN
            IF AnalyzeFails(cleared, FALSE, backend)
            THEN /\ perception' = analyze_raises(cleared)
                 /\ workers' = [workers EXCEPT ![w] = WorkerReturns(me, FALSE)]
                 /\ UNCHANGED <<context, session_log, screen>>
            ELSE LET seen   == analyze_current_screen(cleared, FALSE, screen)
                     action == DecidedAction[text]
                     res    == Dispatched[action][host]
                     ctx1   == add_action(add_screen(context, seen._cached_analysis),
                                          action, res[1], res[2])
                     read   == [me EXCEPT
                                  !.decided_for = Append(@, current_task),
                                  !.observed = Append(@, seen._cached_analysis.id),
                                  !.captured = IF seen.captures # cleared.captures
                                               THEN @ \cup {seen._cached_analysis.id}
                                               ELSE @]
                 IN
                 /\ session_log' = Append(session_log,
                                          [type |-> "action", data |-> res[1]])
                 /\ IF ~res[1]
                    THEN /\ perception' = seen
                         /\ UNCHANGED screen
                         /\ IF Retries[err]
                            THEN /\ context' = [ctx1 EXCEPT !.current_step_index =
                                                                RetryCursor(me.idx)]
                                 /\ workers' = [workers EXCEPT ![w] =
                                                    WorkerContinue(read)]
                            ELSE /\ context' = ctx1
                                 /\ workers' = [workers EXCEPT ![w] =
                                                    WorkerReturns(read, FALSE)]
                    ELSE /\ context' = ctx1
                         /\ perception' = clear_cache(seen)
                         /\ screen' = screen + 1
                         /\ workers' = [workers EXCEPT ![w] = WorkerContinue(read)]
    /\ UNCHANGED <<parallelFrame, submitted, current_task>>

\* _process_task after _process_current_task returned: record the outcome,
\* and in the finally clause forget the current task
WorkerFinish(w) ==
    /\ workers[w].pc = "finish"
    /\ session_log' = Append(session_log,
                             [type |-> "task_end", data |-> workers[w].success])
    /\ context' = IF workers[w].success THEN set_task_completed(context)
                  ELSE set_task_failed(context)
    /\ current_task' = NoTask
    /\ workers' = [workers EXCEPT ![w].pc = "done"]
    /\ UNCHANGED <<parallelFrame, submitted, perception, screen>>

NextParallel ==
    \/ Start
    \/ ParallelSubmit
    \/ \E w \in Workers : WorkerBegin(w)
    \/ \E w \in Workers : WorkerProcess(w)
    \/ \E w \in Workers : WorkerEntry(w)
    \/ \E w \in Workers : WorkerStep(w)
    \/ \E w \in Workers : WorkerFinish(w)

SpecParallel == Init /\ [][NextParallel]_vars

(***************************************************************************)
(* The action grammar and the dispatcher on their own: _parse_action and   *)
(* execute_action applied to texts and action dicts, and the loop's direct *)
(* handling of a CLICK detail.                                             *)
(***************************************************************************)
\* number of calls in the grammar driver
MaxGrammarCalls == 2

txtTypeHello == <<"T","Y","P","E"," ",Quote,"h","e","l","l","o"," ","w","o","r","l","d",Quote>>

txtRunLower == <<"r","u","n"," ",Quote,"l","s"," ","-","l","a",Quote>>

txtLaunchFirefox == <<"L","A","U","N","C","H"," ",Quote,"F","i","r","e","f","o","x",Quote>>

txtLaunchChrome == <<"l","a","u","n","c","h"," ","c","h","r","o","m","e">>

txtClickLower == <<"c","l","i","c","k"," ","5"," ","7">>

txtClickNone == <<"C","L","I","C","K">>

txtClickOne == <<"C","L","I","C","K"," ","5">>

txtClickWord == <<"C","L","I","C","K"," ","t","e","n"," ","1","0">>

txtClickFraction == <<"c","l","i","c","k"," ","1",".","5"," ","2">>

txtPress == <<"P","R","E","S","S"," ","c","t","r","l","+","c">>

txtPressChord == <<"P","R","E","S","S"," ",Quote,"c","t","r","l","+","a",Quote>>

txtPressSpaced == <<"p","r","e","s","s"," ","C","t","r","l"," ","+"," ","S","h","i","f","t"," ","+"," ","T">>

txtPressEnter == <<"P","R","E","S","S"," ",Quote,"e","n","t","e","r",Quote>>

txtWaitNone == <<"W","A","I","T">>

txtWaitWord == <<"W","A","I","T"," ","s","o","o","n">>

txtWaitLower == <<"w","a","i","t">>

txtWaitFraction == <<"w","a","i","t"," ","1",".","5">>

txtScrollUp == <<"s","c","r","o","l","l"," ","u","p">>

txtGarbageLower == <<"f","o","o"," ","b","a","r">>

txtGarbagePadded == <<" ","F","o","o"," ","B","a","r"," ">>

txtClickElement == <<"C","L","I","C","K","_","E","L","E","M","E","N","T"," ","o","k">>

txtScreenshot == <<"S","C","R","E","E","N","S","H","O","T">>

txtEmpty == << >>

\* the texts handed to _parse_action
ParseTexts ==
    {txtClick, txtClickLower, txtClickNone, txtClickOne, txtClickWord,
     txtClickFraction, txtTypeHello, txtRunLower, txtLaunch, txtLaunchFirefox,
     txtLaunchChrome, txtPress, txtWait, txtWaitNegative, txtWaitNone,
     txtWaitWord, txtWaitLower, txtWaitFraction,
     txtPressChord, txtPressSpaced, txtPressEnter,
     txtScrollUp, txtGarbage, txtGarbageLower, txtGarbagePadded, txtEmpty,
     txtClickElement, txtScreenshot}

\* the CLICK details handed to the loop's direct-coordinate handling
ClickDetails ==
    { t \in ParseTexts : IsClickDetail(t) }

\* the WAIT details handed to the loop's own handling of a wait
WaitDetails ==
    { t \in ParseTexts : IsWaitDetail(t) }
\* the dicts handed to execute_action: what the parser returns, and dicts of
\* other callers: no 'type', a None 'type', a type in upper case, a type the
\* dispatcher does not know, a type the parser never produces, a run
\* without its command
ActionRecords ==
    { _parse_action(t) : t \in ParseTexts }
        \cup { [x |-> 1, y |-> 2],
               [type |-> NoType],
               [type |-> Upper(tyClick), x |-> 1, y |-> 2],
               [type |-> <<"f","l","y">>],
               [type |-> tyDoubleClick, x |-> 1, y |-> 2],
               [type |-> tyRightClick, x |-> 1, y |-> 2],
               [type |-> tyDrag, start_x |-> 1, start_y |-> 2,
                end_x |-> 3, end_y |-> 4],
               [type |-> tyRun] }

grammarFrame ==
    <<is_running, is_paused, task_queue, current_task, context, perception,
      session_log, screen, owner, submitted, pc, plan, idx, k, step_succeeded,
      analysis, error_handling_result, success, workers>>

\* _parse_action(text)
ParseAction ==
    /\ Len(events) < MaxGrammarCalls
    /\ \E text \in ParseTexts :
         Log(Event("parse", 0, [text |-> text, action |-> _parse_action(text)]))
    /\ UNCHANGED grammarFrame

\* execute_action(action): it returns a result, or raises; for a press the
\* call it made of the keyboard controller is recorded with it, for a
\* click, double click, right click or drag the call of the mouse controller
ExecuteAction ==
    /\ Len(events) < MaxGrammarCalls
    /\ \E action \in ActionRecords, host \in Hosts :
         IF execute_action_raises(action)
         THEN Log(Event("execute_raised", 0, [action |-> action]))
         ELSE IF Lower(Get(action, "type", << >>)) = tyPress
         THEN Log(Event("execute", 0,
                        [action |-> action,
                         result |-> execute_action(action, host),
                         keyboard |-> keyboard_call(Get(action, "key", << >>))]))
         ELSE IF Lower(Get(action, "type", << >>)) \in MouseTypes
         THEN Log(Event("execute", 0,
                        [action |-> action,
                         result |-> execute_action(action, host),
                         mouse |-> mouse_call(action, host)]))
         ELSE Log(Event("execute", 0,
                        [action |-> action,
                         result |-> execute_action(action, host)]))
    /\ UNCHANGED grammarFrame

\* the loop's direct handling of one CLICK detail
ClickDetail ==
    /\ Len(events) < MaxGrammarCalls
    /\ \E detail \in ClickDetails, host \in Hosts :
         Log(Event("click_detail", 0,
                   [text |-> detail, ok |-> DirectClick(detail, host)]))
    /\ UNCHANGED grammarFrame

\* the loop's direct handling of one WAIT detail: the duration it sleeps
\* for, and whether the sleep returned (time.sleep raises for a negative
\* time) and the step was marked as succeeded
WaitDetail ==
    /\ Len(events) < MaxGrammarCalls
    /\ \E detail \in WaitDetails :
         LET duration == WaitDuration(Split(detail)) IN
         Log(Event("wait_detail", 0,
                   [text |-> detail, duration |-> duration,
                    ok |-> duration >= 0]))
    /\ UNCHANGED grammarFrame

NextGrammar ==
    \/ ParseAction
    \/ ExecuteAction
    \/ ClickDetail
    \/ WaitDetail

SpecGrammar == Init /\ [][NextGrammar]_vars

(***************************************************************************)
(* OllamaClient: what generate and stream_generate hand back.  The backend *)
(* is "up" (it answers), "timeout" (its answer does not come in time) or   *)
(* "down" (no connection).                                                 *)
(***************************************************************************)
Backends == {"up", "timeout", "down"}

txtTimedOut ==
    <<"E","r","r","o","r",":"," ","O","l","l","a","m","a"," ","A","P","I"," ",
      "t","i","m","e","d"," ","o","u","t">>

txtErrorPrefix == <<"E","r","r","o","r",":"," ">>

txtNotAvailable ==
    <<"E","R","R","O","R",":"," ","O","l","l","a","m","a"," ","s","e","r","v",
      "e","r"," ","n","o","t"," ","a","v","a","i","l","a","b","l","e",".",
      " ","P","l","e","a","s","e"," ","e","n","s","u","r","e"," ","O","l",
      "l","a","m","a"," ","i","s"," ","r","u","n","n","i","n","g",".">>

\* str(e) of the RequestException of a backend that is down
txtRefused ==
    <<"C","o","n","n","e","c","t","i","o","n"," ","r","e","f","u","s","e","d">>

\* generate: the model's answer, or a text that tells the error
generate(backend, answer) ==
    CASE backend = "up" -> answer
      [] backend = "timeout" -> txtTimedOut
      [] backend = "down" -> txtErrorPrefix \o txtRefused

\* a mutant of stream_generate: the backend is not looked at
stream_generate_unchecked(backend, answer) == answer

\* stream_generate, its chunks joined: the ping fails when the backend
\* does not answer
stream_generate(backend, answer) ==
    IF backend = "up" THEN answer ELSE txtNotAvailable

\* DecisionMaker.decide_next_action
decide_next_action(backend, answer) ==
    _parse_action(Strip(generate(backend, answer)))

(***************************************************************************)
(* fallback_plans: the patterns of extract_task_components, matched as     *)
(* re.search matches them: at the leftmost position, with the first verb   *)
(* of the alternation that lets the rest match, every repetition taking as *)
(* much as it can.                                                         *)
(***************************************************************************)
vOpenApp ==
    << <<"o","p","e","n">>,
       <<"l","a","u","n","c","h">>,
       <<"s","t","a","r","t">>,
       <<"r","u","n">> >>

vSearchFor ==
    << <<"s","e","a","r","c","h"," ","f","o","r">>,
       <<"f","i","n","d">>,
       <<"l","o","o","k"," ","f","o","r">>,
       <<"g","o","o","g","l","e">>,
       <<"s","e","a","r","c","h">> >>

vNavigateTo ==
    << <<"g","o"," ","t","o">>,
       <<"n","a","v","i","g","a","t","e"," ","t","o">>,
       <<"v","i","s","i","t">>,
       <<"o","p","e","n">> >>

vSiteWords ==
    << <<"w","e","b","s","i","t","e">>,
       <<"p","a","g","e">>,
       <<"u","r","l">>,
       <<"s","i","t","e">> >>

vSchemes ==
    << <<"h","t","t","p","s",":","/","/">>,
       <<"h","t","t","p",":","/","/">> >>

vTypeText ==
    << <<"t","y","p","e">>,
       <<"i","n","p","u","t">>,
       <<"e","n","t","e","r">>,
       <<"w","r","i","t","e">> >>

vTextWords ==
    << <<"t","h","e"," ","t","e","x","t">>,
       <<"t","e","x","t">> >>

vClickOn ==
    << <<"c","l","i","c","k">>,
       <<"p","r","e","s","s">>,
       <<"s","e","l","e","c","t">>,
       <<"c","h","o","o","s","e">> >>

vClickWords ==
    << <<"o","n">>,
       <<"t","h","e">> >>

vTakeScreenshot ==
    << <<"t","a","k","e">>,
       <<"c","a","p","t","u","r","e">>,
       <<"g","r","a","b">> >>

vScreenshotNouns ==
    << <<"s","c","r","e","e","n","s","h","o","t">>,
       <<"s","c","r","e","e","n"," ","s","h","o","t">>,
       <<"s","c","r","e","e","n"," ","c","a","p","t","u","r","e">>,
       <<"s","n","a","p","s","h","o","t">> >>

common_apps ==
    << <<"c","h","r","o","m","e">>,
       <<"f","i","r","e","f","o","x">>,
       <<"s","a","f","a","r","i">>,
       <<"e","d","g","e">>,
       <<"w","o","r","d">>,
       <<"e","x","c","e","l">>,
       <<"p","o","w","e","r","p","o","i","n","t">>,
       <<"o","u","t","l","o","o","k">>,
       <<"n","o","t","e","p","a","d">>,
       <<"c","a","l","c","u","l","a","t","o","r">>,
       <<"t","e","r","m","i","n","a","l">>,
       <<"c","o","d","e">>,
       <<"v","s","c","o","d","e">>,
       <<"s","p","o","t","i","f","y">>,
       <<"d","i","s","c","o","r","d">>,
       <<"s","l","a","c","k">>,
       <<"e","x","p","l","o","r","e","r">>,
       <<"s","e","t","t","i","n","g","s">> >>

stop_words ==
    << <<"t","h","e">>,
       <<"a">>,
       <<"a","n">>,
       <<"a","n","d">>,
       <<"o","r">>,
       <<"b","u","t">>,
       <<"i","f">>,
       <<"t","h","e","n">>,
       <<"e","l","s","e">>,
       <<"w","h","e","n">>,
       <<"a","t">>,
       <<"f","r","o","m">>,
       <<"b","y">>,
       <<"f","o","r">>,
       <<"w","i","t","h">>,
       <<"a","b","o","u","t">>,
       <<"t","o">> >>

browser_names ==
    << <<"b","r","o","w","s","e","r">>,
       <<"c","h","r","o","m","e">>,
       <<"f","i","r","e","f","o","x">> >>

\* no match, where a matched text is expected: no text has this value
NoMatch == <<"None">>

\* the character classes of the patterns
InKind(c, kind) ==
    CASE kind = "blank" -> IsSpace(c)
      [] kind = "name" ->
            \/ IndexIn(c, LowerLetters) # 0
            \/ IndexIn(c, UpperLetters) # 0
            \/ IsDigit(c)
            \/ IsSpace(c)
            \/ c \in {"-", "_", "."}
      [] kind = "site" ->
            \/ IndexIn(c, LowerLetters) # 0
            \/ IndexIn(c, UpperLetters) # 0
            \/ IsDigit(c)
            \/ IsSpace(c)
            \/ c \in {"-", "_", ".", "/"}
      [] kind = "unquoted" -> c \notin {Quote, "'"}
      [] kind = "a_or_blank" -> c = "a" \/ IsSpace(c)

\* where the longest run of characters of one kind that starts at i ends:
\* the position after its last character
RunEnd(s, i, kind) ==
    CHOOSE j \in i..(Len(s) + 1) :
        /\ \A m \in i..(j - 1) : InKind(s[m], kind)
        /\ j = Len(s) + 1 \/ ~InKind(s[j], kind)

\* s holds word at position i
HasAt(s, i, word) ==
    /\ i + Len(word) - 1 <= Len(s)
    /\ SubSeq(s, i, i + Len(word) - 1) = word

\* the position after the first of words that s holds at i, or i
SkipOneOf(s, i, words) ==
    LET found == { n \in 1..Len(words) : HasAt(s, i, words[n]) } IN
    IF found = {} THEN i
    ELSE i + Len(words[CHOOSE n \in found : \A m \in found : n <= m])

\* \s+([a-zA-Z0-9\s\-_\.]+) from position i on: the group, or NoMatch.  When
\* nothing of the class follows the blanks, the last of two or more blanks
\* is given back to the group.
NameAfterBlanks(s, i) ==
    LET b == RunEnd(s, i, "blank")
        e == RunEnd(s, b, "name")
    IN  IF b > i /\ e > b THEN SubSeq(s, b, e - 1)
        ELSE IF b > i + 1 THEN << s[b - 1] >>
        ELSE NoMatch

\* ([a-zA-Z0-9\s\-_\.]+\.[a-z]{2,}[a-zA-Z0-9\s\-_\./]*) at position i: a
\* point after at least one character, two lower-case letters after it
SiteAt(s, i) ==
    LET r == RunEnd(s, i, "name")
        e == RunEnd(s, i, "site")
    IN  IF \E d \in (i + 1)..(r - 3) :
               /\ s[d] = "."
               /\ IndexIn(s[d + 1], LowerLetters) # 0
               /\ IndexIn(s[d + 2], LowerLetters) # 0
        THEN SubSeq(s, i, e - 1)
        ELSE NoMatch

\* \s+(?:website|page|url|site)?\s*(?:https?://)?(...) from position i on:
\* with the optional word when the rest matches then, without it otherwise
SiteAfterBlanks(s, i) ==
    LET b     == RunEnd(s, i, "blank")
        w     == SkipOneOf(s, b, vSiteWords)
        with  == SiteAt(s, SkipOneOf(s, RunEnd(s, w, "blank"), vSchemes))
        plain == SiteAt(s, SkipOneOf(s, b, vSchemes))
    IN  IF b = i THEN NoMatch
        ELSE IF with # NoMatch THEN with ELSE plain

\* ["\']?([^"\']+) at position i
UnquotedAt(s, i) ==
    LET q == IF i <= Len(s) /\ s[i] \in {Quote, "'"} THEN i + 1 ELSE i
        e == RunEnd(s, q, "unquoted")
    IN  IF e > q THEN SubSeq(s, q, e - 1) ELSE NoMatch

\* \s+(?:the text|text|)?\s*["\']?([^"\']+) from position i on: the optional
\* words are tried in their order, then none
TextAfterBlanks(s, i) ==
    LET b == RunEnd(s, i, "blank")
        tries == [n \in 1..Len(vTextWords) |->
                    IF HasAt(s, b, vTextWords[n])
                    THEN UnquotedAt(s, RunEnd(s, b + Len(vTextWords[n]), "blank"))
                    ELSE NoMatch]
        plain == UnquotedAt(s, b)
    IN  IF b = i THEN NoMatch
        ELSE IF tries[1] # NoMatch THEN tries[1]
        ELSE IF tries[2] # NoMatch THEN tries[2]
        ELSE IF plain # NoMatch THEN plain
        ELSE IF b > i + 1 THEN << s[b - 1] >>
        ELSE NoMatch

\* \s+(?:on|the)?["\']?([^"\']+) from position i on
ElementAfterBlanks(s, i) ==
    LET b == RunEnd(s, i, "blank")
        tries == [n \in 1..Len(vClickWords) |->
                    IF HasAt(s, b, vClickWords[n])
                    THEN UnquotedAt(s, b + Len(vClickWords[n]))
                    ELSE NoMatch]
        plain == UnquotedAt(s, b)
    IN  IF b = i THEN NoMatch
        ELSE IF tries[1] # NoMatch THEN tries[1]
        ELSE IF tries[2] # NoMatch THEN tries[2]
        ELSE IF plain # NoMatch THEN plain
        ELSE IF b > i + 1 THEN << s[b - 1] >>
        ELSE NoMatch

\* LET x == v IN Body(x), with v computed once
Bind(v, Body(_)) == CHOOSE r \in { Body(x) : x \in {v} } : TRUE

\* re.search of a pattern that is an alternation of verbs and a rest: the
\* group of the match, stripped, or NoMatch
Search(s, verbs, Rest(_, _)) ==
    Bind({ h \in (1..Len(s)) \X (1..Len(verbs)) :
              /\ HasAt(s, h[1], verbs[h[2]])
              /\ Rest(s, h[1] + Len(verbs[h[2]])) # NoMatch },
         LAMBDA hits :
            IF hits = {} THEN NoMatch
            ELSE LET best == CHOOSE h \in hits :
                                \A g \in hits :
                                   h[1] < g[1] \/ (h[1] = g[1] /\ h[2] <= g[2])
                 IN  Strip(Rest(s, best[1] + Len(verbs[best[2]]))))

\* the take_screenshot pattern matches: a verb, one or more of "a" and
\* blanks, a noun
MatchesScreenshot(s) ==
    \E p \in 1..Len(s), v \in 1..Len(vTakeScreenshot) :
        /\ HasAt(s, p, vTakeScreenshot[v])
        /\ LET after == p + Len(vTakeScreenshot[v])
               e     == RunEnd(s, after, "a_or_blank")
           IN  /\ e > after
               /\ \E n \in 1..Len(vScreenshotNouns) : HasAt(s, e, vScreenshotNouns[n])

\* match.group(1) of the take_screenshot pattern, which has no group: an
\* IndexError out of extract_task_components
extract_task_components_raises(task_description) ==
    \E task_lower \in {Lower(task_description)} : MatchesScreenshot(task_lower)

\* extract_task_components, the components get_fallback_plan reads
\* (create_file, compound_task and action_phrases are set and never read)
extract_task_components(task_description) ==
    Bind(Lower(task_description),
         LAMBDA task_lower :
            [open_app    |-> Search(task_lower, vOpenApp, NameAfterBlanks),
             search_for  |-> Search(task_lower, vSearchFor, NameAfterBlanks),
             navigate_to |-> Search(task_lower, vNavigateTo, SiteAfterBlanks),
             type_text   |-> Search(task_lower, vTypeText, TextAfterBlanks),
             click_on    |-> Search(task_lower, vClickOn, ElementAfterBlanks)])

strLaunch == <<"L","a","u","n","c","h"," ">>

strWaitFor == <<"W","a","i","t"," ","f","o","r"," ">>

strToLoad == <<" ","t","o"," ","l","o","a","d">>

strWaitBrowser ==
    <<"W","a","i","t"," ","f","o","r"," ","b","r","o","w","s","e","r"," ","t",
      "o"," ","l","o","a","d">>

strTypeSearch ==
    <<"T","y","p","e"," ","s","e","a","r","c","h"," ","t","e","r","m",":"," ">>

strPressSearch ==
    <<"P","r","e","s","s"," ","E","n","t","e","r"," ","t","o"," ","s","e","a",
      "r","c","h">>

strLaunchBrowser ==
    <<"L","a","u","n","c","h"," ","w","e","b"," ","b","r","o","w","s","e","r">>

strTypeUrl == <<"T","y","p","e"," ","U","R","L",":"," ">>

strPressNavigate ==
    <<"P","r","e","s","s"," ","E","n","t","e","r"," ","t","o"," ","n","a","v",
      "i","g","a","t","e">>

strTypeText == <<"T","y","p","e"," ","t","e","x","t",":"," ">>

strEllipsis == <<".",".",".">>

strFindClick ==
    <<"F","i","n","d"," ","a","n","d"," ","c","l","i","c","k"," ","o","n",":",
      " ">>

strLookMatching ==
    <<"L","o","o","k"," ","f","o","r"," ","e","l","e","m","e","n","t","s"," ",
      "m","a","t","c","h","i","n","g"," ","t","a","s","k"," ","d","e","s",
      "c","r","i","p","t","i","o","n">>

strLookClickable ==
    <<"L","o","o","k"," ","f","o","r"," ","c","l","i","c","k","a","b","l","e",
      " ","e","l","e","m","e","n","t","s">>

dtlWait1 == <<"W","A","I","T"," ","1">>

dtlWait2 == <<"W","A","I","T"," ","2">>

dtlWait3 == <<"W","A","I","T"," ","3">>

dtlPressEnter == <<"P","R","E","S","S"," ",Quote,"e","n","t","e","r",Quote>>

dtlLaunchChrome == <<"L","A","U","N","C","H","_","C","H","R","O","M","E">>

dtlLaunch == <<"L","A","U","N","C","H"," ">>

dtlType == <<"T","Y","P","E"," ">>

dtlClickElement == <<"C","L","I","C","K","_","E","L","E","M","E","N","T"," ">>

dtlClickButton ==
    <<"C","L","I","C","K","_","E","L","E","M","E","N","T"," ",Quote,"b","u",
      "t","t","o","n",Quote>>

dtlClickMenu ==
    <<"C","L","I","C","K","_","E","L","E","M","E","N","T"," ",Quote,"m","e",
      "n","u",Quote>>

dtlClickIcon ==
    <<"C","L","I","C","K","_","E","L","E","M","E","N","T"," ",Quote,"i","c",
      "o","n",Quote>>

strWww == <<"w","w","w",".">>

strHttp == <<"h","t","t","p">>

Step(number, description, details) ==
    [number |-> number, description |-> description, details |-> details]

\* f'... "{value}"'
Quoted(keyword, value) == keyword \o <<Quote>> \o value \o <<Quote>>

\* x in xs
Among(x, xs) == \E n \in 1..Len(xs) : xs[n] = x

\* the first n elements
FirstN(xs, n) == SubSeq(xs, 1, Min(n, Len(xs)))

\* the four steps of a search or a navigation in the browser
BrowserSteps(first, third, typed, fourth) ==
    << first,
       Step(2, strWaitBrowser, <<dtlWait3>>),
       Step(3, third, <<Quoted(dtlType, typed)>>),
       Step(4, fourth, <<dtlPressEnter, dtlWait1>>) >>

\* the two steps that launch an application
LaunchSteps(app_name) ==
    << Step(1, strLaunch \o app_name, <<Quoted(dtlLaunch, app_name)>>),
       Step(2, strWaitFor \o app_name \o strToLoad, <<dtlWait2>>) >>

\* the default handler: an application named in the task, words of the
\* task to click on, or the last resort
GenericSteps(task_description) ==
    Bind(Split(Lower(task_description)),
         LAMBDA words :
            LET named == { n \in 1..Len(common_apps) : Among(common_apps[n], words) }
                important_words ==
                    SelectSeq(words,
                              LAMBDA word : ~Among(word, stop_words) /\ Len(word) > 2)
                shown == FirstN(important_words, 3)
            IN  IF named # {}
                THEN LaunchSteps(common_apps[CHOOSE n \in named :
                                                \A m \in named : n <= m])
                ELSE IF important_words # << >>
                THEN << Step(1, strLookMatching,
                             [n \in 1..Len(shown) |->
                                 Quoted(dtlClickElement, shown[n])]) >>
                ELSE << Step(1, strLookClickable,
                             <<dtlClickButton, dtlClickMenu, dtlClickIcon>>) >>)

\* get_fallback_plan, when extract_task_components returns
get_fallback_plan(task_description) ==
    Bind(extract_task_components(task_description), LAMBDA components :
    LET app_name    == components.open_app
        search_term == components.search_for
        website     == IF ~StartsWith(components.navigate_to, strWww)
                          /\ ~StartsWith(components.navigate_to, strHttp)
                       THEN strWww \o components.navigate_to
                       ELSE components.navigate_to
        text        == components.type_text
        element     == components.click_on
        steps ==
            IF app_name # NoMatch
            THEN IF /\ search_term # NoMatch
                    /\ \E n \in 1..Len(browser_names) :
                          Contains(app_name, browser_names[n])
                 THEN BrowserSteps(Step(1, strLaunch \o app_name,
                                        <<Quoted(dtlLaunch, app_name)>>),
                                   strTypeSearch \o search_term, search_term,
                                   strPressSearch)
                 ELSE LaunchSteps(app_name)
            ELSE IF search_term # NoMatch
            THEN BrowserSteps(Step(1, strLaunchBrowser, <<dtlLaunchChrome>>),
                              strTypeSearch \o search_term, search_term,
                              strPressSearch)
            ELSE IF components.navigate_to # NoMatch
            THEN BrowserSteps(Step(1, strLaunchBrowser, <<dtlLaunchChrome>>),
                              strTypeUrl \o website, website, strPressNavigate)
            ELSE IF text # NoMatch
            THEN << Step(1, strTypeText \o FirstN(text, 20)
                               \o (IF Len(text) > 20 THEN strEllipsis ELSE << >>),
                         <<Quoted(dtlType, text)>>) >>
            ELSE IF element # NoMatch
            THEN << Step(1, strFindClick \o element,
                         <<Quoted(dtlClickElement, element)>>) >>
            ELSE << >>
    IN  IF steps = << >> THEN GenericSteps(task_description) ELSE steps)

(***************************************************************************)
(* TaskPlanner.                                                            *)
(***************************************************************************)
\* the sub-tasks a decomposition may name
MaxSubTasks == 2

txtSubTaskOpen == <<"S","u","b","-","t","a","s","k"," ","'">>

txtSubTaskClose == <<"'",":"," ">>

\* the lines of a text, stripped, the empty ones left out
StrippedLines(text) ==
    Bind(SplitOn(Strip(text), "\n"),
         LAMBDA lines :
            SelectSeq([n \in 1..Len(lines) |-> Strip(lines[n])],
                      LAMBDA line : line # << >>))

\* _decompose_task, given the model's answer
_decompose_task(task_description, response) ==
    Bind(StrippedLines(response),
         LAMBDA sub_tasks :
            IF \/ sub_tasks = << >>
               \/ (Len(sub_tasks) = 1
                   /\ Lower(sub_tasks[1]) = Lower(task_description))
            THEN << task_description >>
            ELSE sub_tasks)

\* a mutant of StartsStep: every line starts a step
StartsStepAlways(line) == TRUE

\* line[0].isdigit() and "." in line[:3]
StartsStep(line) ==
    /\ IsDigit(line[1])
    /\ Contains(SubSeq(line, 1, Min(3, Len(line))), <<".">>)

\* line[line.index('.')+1:].strip()
AfterPoint(line) ==
    LET at == CHOOSE n \in 1..Len(line) :
                 line[n] = "." /\ \A m \in 1..(n - 1) : line[m] # "."
    IN  Strip(DropFirst(line, at))

RECURSIVE ParseLines(_, _, _, _)
\* the loop of _parse_steps from line n on; current_step is the step being
\* built, as a sequence of none or one
ParseLines(lines, n, steps, current_step) ==
    IF n > Len(lines)
    THEN steps \o current_step
    ELSE IF StartsStep(lines[n])
    THEN ParseLines(lines, n + 1, steps \o current_step,
                    << Step(DigitsValue(<< lines[n][1] >>), AfterPoint(lines[n]),
                            << >>) >>)
    ELSE IF current_step # << >>
    THEN ParseLines(lines, n + 1, steps,
                    << [current_step[1] EXCEPT !.details = Append(@, lines[n])] >>)
    ELSE ParseLines(lines, n + 1, steps, current_step)

_parse_steps(plan_text) ==
    Bind(StrippedLines(plan_text), LAMBDA lines : ParseLines(lines, 1, << >>, << >>))

\* _plan_sub_task, and plan_task's prefix on the description of its steps
_plan_sub_task(sub_task, response) ==
    Bind(_parse_steps(response),
         LAMBDA steps :
            [n \in 1..Len(steps) |->
                [steps[n] EXCEPT !.description =
                    txtSubTaskOpen \o sub_task \o txtSubTaskClose \o @]])

RECURSIVE Extend(_, _)
\* all_plans after the sub-tasks from n on were planned
Extend(plans, n) ==
    IF n > Len(plans) THEN << >> ELSE plans[n] \o Extend(plans, n + 1)

\* the steps of all sub-tasks, before the fallback and the renumbering;
\* responses[n] is what the model streams for sub-task n
all_plans(sub_tasks, responses) ==
    Extend([n \in 1..Len(sub_tasks) |-> _plan_sub_task(sub_tasks[n], responses[n])], 1)

\* plan_task raises: the fallback planner is called and raises
plan_task_raises(task_description, sub_tasks, responses) ==
    /\ all_plans(sub_tasks, responses) = << >>
    /\ extract_task_components_raises(task_description)

\* plan_task, when it returns
plan_task(task_description, sub_tasks, responses) ==
    Bind(all_plans(sub_tasks, responses),
         LAMBDA planned :
            Bind(IF planned = << >> THEN get_fallback_plan(task_description)
                 ELSE planned,
                 LAMBDA steps : Renumber(steps)))

(***************************************************************************)
(* The planner specification: plan_task, get_fallback_plan and             *)
(* decide_next_action called with the texts below, whatever the backend.   *)
(***************************************************************************)
\* number of calls in the planner driver
MaxPlannerCalls == 1

taskOpenApp == <<"o","p","e","n"," ","a","p","p">>

taskOpenChrome ==
    <<"o","p","e","n"," ","c","h","r","o","m","e"," ","a","n","d"," ","s","e",
      "a","r","c","h"," ","f","o","r"," ","c","a","t","s">>

taskFindCats == <<"f","i","n","d"," ","c","a","t","s">>

taskVisit ==
    <<"v","i","s","i","t"," ","e","x","a","m","p","l","e",".","c","o","m">>

taskType == <<"T","y","p","e"," ","h","e","l","l","o">>

taskClickOn == <<"c","l","i","c","k"," ","o","n"," ","o","k">>

taskScreenshot ==
    <<"t","a","k","e"," ","a"," ","s","c","r","e","e","n","s","h","o","t">>

taskExcel == <<"u","s","e"," ","e","x","c","e","l">>

taskThing == <<"d","o"," ","t","h","e"," ","t","h","i","n","g">>

taskA == <<"a">>

PlanTasks ==
    {taskOpenApp, taskOpenChrome, taskFindCats, taskVisit, taskType,
     taskClickOn, taskScreenshot, taskExcel, taskThing, taskA}

\* the task itself, in other letters
ansSame == <<"O","p","e","n"," ","A","p","p">>

\* two sub-tasks
ansTwo ==
    <<"f","i","r","s","t"," ","p","a","r","t","\n","\n"," "," ","s","e","c",
      "o","n","d"," ","p","a","r","t"," ","\n">>

\* blank lines only
ansNothing == <<" ","\n">>

\* two steps, the first with a detail
ansPlan ==
    <<"1","."," ","C","l","i","c","k"," ","i","t","\n","C","L","I","C","K",
      " ","1","0"," ","1","0","\n","2","."," ","W","a","i","t","\n">>

\* a line before the first step, and a step number used twice
ansTwice ==
    <<"i","n","t","r","o","\n","1","."," ","g","o","\n","1","."," ","a","g",
      "a","i","n">>

\* no numbered line
ansProse ==
    <<"I"," ","c","a","n","n","o","t"," ","h","e","l","p"," ","w","i","t","h",
      " ","t","h","a","t",".">>

\* what the model may answer to the decomposition prompt
Decompositions == {ansSame, ansTwo, ansNothing}

\* what the model may stream as the plan of a sub-task
PlanAnswers == {ansPlan, ansTwice, ansProse}

\* plan_task(task): the backend's state and the model's answers are inputs;
\* the record keeps what the client handed back
PlanTask ==
    /\ Len(events) < MaxPlannerCalls
    /\ \E task \in PlanTasks, backend \in Backends, decomposition \in Decompositions,
          answers \in [1..MaxSubTasks -> PlanAnswers] :
         \E decomposed \in {generate(backend, decomposition)} :
         \E sub_tasks \in {_decompose_task(task, decomposed)} :
         \E responses \in {[n \in 1..Len(sub_tasks) |->
                               stream_generate(backend, answers[n])]} :
         LET call == [task |-> task, backend |-> backend,
                      decomposed |-> decomposed, sub_tasks |-> sub_tasks,
                      responses |-> responses]
         IN  IF plan_task_raises(task, sub_tasks, responses)
             THEN Log(Event("plan_task_raised", 0, call))
             ELSE Log(Event("plan_task", 0,
                            [call |-> call,
                             plan |-> plan_task(task, sub_tasks, responses)]))
    /\ UNCHANGED grammarFrame

\* get_fallback_plan(task)
FallbackPlan ==
    /\ Len(events) < MaxPlannerCalls
    /\ \E task \in PlanTasks :
         IF extract_task_components_raises(task)
         THEN Log(Event("fallback_raised", 0, [task |-> task]))
         ELSE Log(Event("fallback", 0,
                        [task |-> task, plan |-> get_fallback_plan(task)]))
    /\ UNCHANGED grammarFrame

\* decide_next_action
DecideNextAction ==
    /\ Len(events) < MaxPlannerCalls
    /\ \E backend \in Backends, answer \in DecisionTexts :
         LET response == generate(backend, answer) IN
         Log(Event("decide", 0,
                   [backend |-> backend, response |-> response,
                    action |-> decide_next_action(backend, answer)]))
    /\ UNCHANGED grammarFrame

NextPlanner ==
    \/ PlanTask
    \/ FallbackPlan
    \/ DecideNextAction

SpecPlanner == Init /\ [][NextPlanner]_vars
(***************************************************************************)
(* The history specification: the ContextManager's two histories filled    *)
(* past their capacity.  The n-th action recorded is a wait of n seconds   *)
(* and the n-th screen recorded is the n-th capture, so that the entries   *)
(* can be told apart.                                                      *)
(***************************************************************************)
\* number of entries added to either history
MaxAppends == 22

historyFrame ==
    <<is_running, is_paused, task_queue, current_task, session_log, screen,
      owner, pc, plan, idx, k, step_succeeded, analysis,
      error_handling_result, success, workers>>

\* context.add_action(action, success, result) after a dispatch
HistoryAddAction ==
    /\ Len(events) < MaxAppends
    /\ LET action == [type |-> tyWait, duration |-> 1000 * (Len(events) + 1)]
           res    == execute_action(action, "ok")
       IN  /\ context' = add_action(context, action, res[1], res[2])
           /\ Log(Event("add_action", 0, action))
    /\ UNCHANGED <<historyFrame, perception, submitted>>

\* context.add_screen(screenshot, analysis) after a fresh observation
HistoryAddScreen ==
    /\ perception.captures < MaxAppends
    /\ LET seen == analyze_current_screen(clear_cache(perception), TRUE, screen) IN
       /\ perception' = seen
       /\ context' = add_screen(context, seen._cached_analysis)
    /\ UNCHANGED <<historyFrame, events, submitted>>

\* context.start_task(task), once per task
HistoryStartTask ==
    /\ \E t \in Tasks :
         /\ \A i \in 1..Len(submitted) : submitted[i] # t
         /\ submitted' = Append(submitted, t)
         /\ context' = start_task(context, t)
    /\ UNCHANGED <<historyFrame, events, perception>>

NextHistory ==
    \/ HistoryAddAction
    \/ HistoryAddScreen
    \/ HistoryStartTask

SpecHistory == Init /\ [][NextHistory]_vars

(***************************************************************************)
(* The loop threads: every start() that is let through creates one thread  *)
(* running _agent_loop, and stop() joins the latest of them for two        *)
(* seconds at most.  A thread is one of `workers`; inside                  *)
(* _process_current_task it does what a worker does (WorkerProcess,        *)
(* WorkerEntry, WorkerStep).  `events` records the owner's calls of        *)
(* start, stop and execute_task with what they returned.                   *)
(***************************************************************************)
\* number of calls of start, stop and execute_task
MaxOwnerCalls == 5

\* the tasks the owner submits with execute_task, in this order
QueueTasks == <<"open app", "find cats">>

threadFrame ==
    <<pc, plan, idx, k, step_succeeded, analysis, error_handling_result, success>>

\* the threads start() has created so far
Created == { w \in Workers : workers[w].pc # "idle" }

\* self.agent_thread: the thread the latest start() created
agent_thread == CHOOSE w \in Created : \A v \in Created : v <= w

\* the threads that are inside _process_current_task
Processing == { w \in Workers : workers[w].pc \in {"process", "execute", "step"} }

\* a mutant of NotRunning: the check of is_running never refuses a call
NotRunningNever(running) == FALSE

\* `if not self.is_running`, the check that opens stop() and execute_task()
NotRunning(running) == ~running

\* start(): refused while is_running, a new thread otherwise
ThreadStart ==
    /\ owner = "idle"
    /\ Len(events) < MaxOwnerCalls
    /\ IF is_running
       THEN /\ Log(Event("start", 0, FALSE))
            /\ UNCHANGED <<is_running, is_paused, workers>>
       ELSE /\ Created # Workers
            /\ LET w == CHOOSE v \in Workers \ Created :
                           \A u \in Workers \ Created : v <= u
               IN  /\ is_running' = TRUE
                   /\ is_paused' = FALSE
                   /\ workers' = [workers EXCEPT ![w].pc = "loop"]
                   /\ Log(Event("start", w, TRUE))
    /\ UNCHANGED <<threadFrame, task_queue, current_task, context, perception,
                   session_log, screen, owner, submitted>>

\* stop(), up to the join: refused unless is_running
ThreadStop ==
    /\ owner = "idle"
    /\ Len(events) < MaxOwnerCalls
    /\ IF NotRunning(is_running)
       THEN /\ Log(Event("stop", 0, FALSE))
            /\ UNCHANGED <<is_running, owner>>
       ELSE /\ is_running' = FALSE
            /\ owner' = "joining"
            /\ Log(Event("stop", 0, TRUE))
    /\ UNCHANGED <<threadFrame, workers, is_paused, task_queue, current_task, context,
                   perception, session_log, screen, submitted>>

\* stop(), from the join on: agent_thread.join(timeout=2.0) returns once the
\* thread has ended, or gives up on a thread that is busy with a task (a
\* thread that waits for a task looks at is_running every half second and
\* ends in time); then _cleanup_resources
ThreadJoin ==
    /\ owner = "joining"
    /\ workers[agent_thread].pc # "loop"
    /\ perception' = shutdown(perception)
    /\ owner' = "idle"
    /\ UNCHANGED <<threadFrame, workers, is_running, is_paused, task_queue,
                   current_task, context, session_log, screen, submitted, events>>

\* execute_task(), up to task_queue.put: refused unless is_running
ThreadExecuteTask ==
    /\ owner = "idle"
    /\ Len(events) < MaxOwnerCalls
    /\ Len(submitted) < Len(QueueTasks)
    /\ LET t == QueueTasks[Len(submitted) + 1] IN
       IF NotRunning(is_running)
       THEN /\ Log(Event("execute_task", 0, "None"))
            /\ UNCHANGED <<task_queue, submitted, owner>>
       ELSE /\ task_queue' = Append(task_queue, t)
            /\ submitted' = Append(submitted, t)
            /\ owner' = "submitting"
            /\ Log(Event("execute_task", 0, t))
    /\ UNCHANGED <<threadFrame, workers, is_running, is_paused, current_task, context,
                   perception, session_log, screen>>

\* _agent_loop: `while self.is_running` is false
ThreadExit(w) ==
    /\ workers[w].pc = "loop"
    /\ ~is_running
    /\ workers' = [workers EXCEPT ![w].pc = "terminated"]
    /\ UNCHANGED <<parallelFrame, submitted, current_task, context, perception,
                   session_log, screen>>

\* _agent_loop: running, not paused and a task is queued: take it
ThreadGet(w) ==
    /\ workers[w].pc = "loop"
    /\ is_running
    /\ ~is_paused
    /\ task_queue # << >>
    /\ current_task' = Head(task_queue)
    /\ task_queue' = Tail(task_queue)
    /\ workers' = [workers EXCEPT ![w].pc = "process", ![w].task = Head(task_queue)]
    /\ UNCHANGED <<threadFrame, ownerVars, context, perception, session_log, screen,
                   events>>

\* _agent_loop after _process_current_task returned: record the outcome;
\* what set_task_completed or set_task_failed raises ends the thread
ThreadFinish(w) ==
    /\ workers[w].pc = "finish"
    /\ current_task' = NoTask
    /\ session_log' = Append(session_log,
                             [type |-> "task_end", data |-> workers[w].success])
    /\ context' = IF workers[w].success THEN set_task_completed(context)
                  ELSE set_task_failed(context)
    /\ IF duration_raises(context)
       THEN /\ is_running' = FALSE
            /\ workers' = [workers EXCEPT ![w].pc = "terminated"]
       ELSE /\ workers' = [workers EXCEPT ![w].pc = "loop"]
            /\ UNCHANGED is_running
    /\ UNCHANGED <<threadFrame, is_paused, owner, submitted, task_queue, perception,
                   screen, events>>

NextThreads ==
    \/ ThreadStart
    \/ ThreadStop
    \/ ThreadJoin
    \/ Pause
    \/ Resume
    \/ ThreadExecuteTask
    \/ ExecuteTaskRecord
    \/ \E w \in Workers : ThreadExit(w)
    \/ \E w \in Workers : ThreadGet(w)
    \/ \E w \in Workers : WorkerProcess(w)
    \/ \E w \in Workers : WorkerEntry(w)
    \/ \E w \in Workers : WorkerStep(w)
    \/ \E w \in Workers : ThreadFinish(w)

SpecThreads == Init /\ [][NextThreads]_vars
(***************************************************************************)
(* Properties.                                                             *)
(***************************************************************************)
\* positions of the events of one kind
At(what) == { j \in 1..Len(events) : events[j].what = what }

\* the step just taken appended exactly these events
Appended(es) == events' = events \o es

\* the event at the end of the record
LastEvent == events[Len(events)]

\* text contains "retry", whatever the case of its letters
MentionsRetry(text) == Contains(Lower(text), <<"r","e","t","r","y">>)

DecisionDriven(step) == step.details = << >>

\* the run of the plan was cut short by a pause, a stop or an exception
CutShort == At("interrupted") \cup At("raised") \cup At("no_plan") # {}

\* C1: after a decision-driven step i fails and handle_error signals retry,
\* the next step the loop executes is step max(1, i-1), not step i+1.
C1_RetryReattemptsEarlierStep ==
    \A j \in At("handle_error") :
        events[j].data = "retry" =>
            \A m \in At("step") :
                (m > j /\ \A n \in At("step") : ~(j < n /\ n < m))
                    => events[m].step = Max(1, events[j].step - 1)

\* C2: when decision-driven step i fails and handle_error's text contains
\* "retry" in any letter case, the plan cursor is set to max(0, i-2): to 0
\* for i = 1, and never to a negative value.
C2_RetrySetsCursor ==
    [][ ( /\ pc = "decide"
          /\ Appended(<< Event("dispatch", idx, FALSE),
                         Event("handle_error", idx, "retry") >>)
             \/ Appended(<< Event("dispatch", idx, FALSE),
                            Event("handle_error", idx, "abort") >>)
          /\ MentionsRetry(error_handling_result') )
        => ( /\ context'.current_step_index = Max(0, idx - 2)
             /\ context'.current_step_index >= 0
             /\ (idx = 1 => context'.current_step_index = 0) ) ]_vars

\* C2 witness: step 1 failed, handle_error answered in lower case, and the
\* cursor is 0.
C2_Witness ==
    /\ events # << >>
    /\ LastEvent = Event("handle_error", 1, "retry")
    /\ error_handling_result = txtRetryLower
    /\ context.current_step_index = 0

\* C3: the loop returns success only if every decision-driven step whose
\* action failed was later executed again successfully.
C3_CompletedOnlyWithoutUnresolvedFailure ==
    (pc = "finish" /\ success) =>
        \A j \in At("dispatch") :
            ~events[j].data =>
                \E m \in At("dispatch") :
                    m > j /\ events[m].step = events[j].step /\ events[m].data

\* C4: a pause seen at the start of step i, after earlier steps ran, does
\* not fail the task: once resumed, the task is not left marked failed with
\* step i never taken up again.
C4_PauseDoesNotFailTask ==
    ( /\ events # << >>
      /\ LastEvent.what = "interrupted"
      /\ LastEvent.step > 1
      /\ LastEvent.data.running
      /\ LastEvent.data.paused
      /\ is_running
      /\ ~is_paused )
        => ~(pc = "loop" /\ owner = "idle" /\ context.task_status = "failed")

\* C5: a plan of N decision-driven steps whose actions all succeed, run
\* without interruption, ends with success after exactly N dispatches, N
\* cache invalidations after actions and N-1 invalidations before steps,
\* none of them before step 1.
C5_AllDecisionPlanCounts ==
    ( /\ pc = "finish"
      /\ plan # << >>
      /\ \A i \in 1..Len(plan) : DecisionDriven(plan[i])
      /\ \A j \in At("dispatch") : events[j].data
      /\ ~CutShort )
        => ( /\ success
             /\ Cardinality(At("dispatch")) = Len(plan)
             /\ Cardinality(At("clear_after")) = Len(plan)
             /\ Cardinality(At("clear_before")) = Len(plan) - 1
             /\ \A j \in At("clear_before") : events[j].step > 1 )

\* C5 witness: a plan of MaxSteps decision-driven steps completed.
C5_Witness ==
    /\ pc = "finish"
    /\ success
    /\ Len(plan) = MaxSteps
    /\ \A i \in 1..Len(plan) : DecisionDriven(plan[i])
    /\ Cardinality(At("dispatch")) = MaxSteps
    /\ \A j \in At("dispatch") : events[j].data

\* the step just taken is a call of analyze_current_screen(force_new)
\* that returned
Observed(force_new) == Appended(<< Event("observe", 0, [force_new |-> force_new]) >>)

\* C6: in any sequence of observe and invalidate calls, an observe without
\* force_new made while the cache holds an observation returns that very
\* observation and makes no capture.
C6_CachedObservationReused ==
    [][ (Observed(FALSE) /\ perception._cached_analysis # NoAnalysis)
        => ( /\ analysis' = perception._cached_analysis
             /\ perception'.captures = perception.captures
             /\ perception'._cached_analysis = perception._cached_analysis )
      ]_vars

\* C6 witness: two observes in a row without force_new, the screen having
\* changed in between, and the second returned the first one's observation.
C6_Witness ==
    /\ Len(events) >= 2
    /\ LastEvent = Event("observe", 0, [force_new |-> FALSE])
    /\ events[Len(events) - 1] = Event("observe", 0, [force_new |-> FALSE])
    /\ perception.captures = 1
    /\ analysis = [id |-> 1, raw_text |-> 0]
    /\ screen > 0

\* C7: an observe that follows an invalidate makes exactly one new capture;
\* when it returns, the capture's result is what the cache holds and what is
\* returned.  The cache holds nothing or one observation, one that a capture
\* made.
C7_ObserveAfterInvalidateCaptures ==
    [][ ( /\ events # << >>
          /\ LastEvent.what = "invalidate"
          /\ \E f \in BOOLEAN :
                \/ Observed(f)
                \/ Appended(<< Event("observe_raised", 0, [force_new |-> f]) >>) )
        => ( /\ perception'.captures = perception.captures + 1
             /\ (\E f \in BOOLEAN : Observed(f)) =>
                   /\ perception'._cached_analysis =
                          [id |-> perception.captures + 1, raw_text |-> screen]
                   /\ analysis' = perception'._cached_analysis
             /\ \/ perception'._cached_analysis = NoAnalysis
                \/ perception'._cached_analysis.id \in 1..perception'.captures )
      ]_vars

\* C7 witness: observe, invalidate, observe on a changed screen: two
\* captures, and the second observation is cached and returned.
C7_Witness ==
    /\ Len(events) >= 2
    /\ LastEvent.what = "observe"
    /\ events[Len(events) - 1].what = "invalidate"
    /\ perception.captures = 2
    /\ perception._cached_analysis = [id |-> 2, raw_text |-> 1]
    /\ analysis = perception._cached_analysis

\* the details of step i that executed successfully, by the record
Successful(i) ==
    { j \in At("detail") : events[j].step = i /\ events[j].data.ok }

\* C8: when the details of a deterministic step have run, the step counts
\* as succeeded if and only if at least one detail executed successfully.
C8_StepSucceedsIffSomeDetailDid ==
    pc = "evaluate" => (step_succeeded <=> Successful(idx) # {})

\* C8 witness: details [WAIT 1, CLICK 10 10], the wait succeeded, the click
\* failed, and the step counts as succeeded.
C8_Witness ==
    /\ pc = "evaluate"
    /\ plan[idx].details = <<txtWait, txtClick>>
    /\ \E j \in At("detail") :
          events[j].step = idx /\ events[j].data = [k |-> 1, ok |-> TRUE]
    /\ \E j \in At("detail") :
          events[j].step = idx /\ events[j].data = [k |-> 2, ok |-> FALSE]
    /\ step_succeeded

\* C9: if every detail of a deterministic step fails and the step is the
\* last one, the loop returns failure, and the task status becomes failed.
C9_FailedLastStepFailsTask ==
    [][ /\ ( /\ pc = "evaluate"
             /\ pc' # "evaluate"
             /\ idx = Len(plan)
             /\ Successful(idx) = {} )
            => (pc' = "finish" /\ ~success')
        /\ ( /\ pc = "finish"
             /\ pc' # "finish"
             /\ events # << >>
             /\ LastEvent = Event("evaluated", Len(plan), FALSE) )
            => context'.task_status = "failed"
      ]_vars

\* C9 witness: the task is failed after the last step's only detail failed.
C9_Witness ==
    /\ pc = "loop"
    /\ events # << >>
    /\ LastEvent.what = "evaluated"
    /\ ~LastEvent.data
    /\ Successful(LastEvent.step) = {}
    /\ context.task_status = "failed"

\* C10: if every detail of a deterministic step fails and the step is not
\* the last one, the loop goes on with the next step: handle_error is not
\* called and the task is not failed.
C10_FailedStepIsSkipped ==
    [][ ( /\ pc = "evaluate"
          /\ pc' # "evaluate"
          /\ idx < Len(plan)
          /\ Successful(idx) = {} )
        => ( /\ pc' = "step"
             /\ idx' = idx + 1
             /\ context' = context
             /\ Appended(<< Event("evaluated", idx, FALSE) >>)
             /\ \A j \in 1..Len(events') :
                   events'[j].what = "handle_error" => events'[j].step # idx )
      ]_vars

\* C10 witness: the loop returned success although every detail of an
\* earlier deterministic step failed.
C10_Witness ==
    /\ pc = "finish"
    /\ success
    /\ \E j \in At("evaluated") :
          /\ ~events[j].data
          /\ events[j].step < Len(plan)
          /\ Successful(events[j].step) = {}

\* the step just taken dispatched the action of a decision-driven step, the
\* action failed and handle_error was asked
DispatchFailed ==
    /\ pc = "decide"
    /\ \E d \in {"retry", "abort"} :
          Appended(<< Event("dispatch", idx, FALSE), Event("handle_error", idx, d) >>)

\* C11: when the action of a decision-driven step fails and handle_error's
\* text does not mention retry, _execute_plan returns False at once: nothing
\* is observed, decided or dispatched after it, and the task becomes failed.
C11_AbortEndsPlan ==
    [][ /\ (DispatchFailed /\ ~MentionsRetry(error_handling_result'))
            => ( /\ pc' = "finish"
                 /\ ~success'
                 /\ perception' = perception
                 /\ events'[Len(events')] = Event("handle_error", idx, "abort") )
        /\ \A j \in 1..Len(events') :
              (events'[j].what = "handle_error" /\ events'[j].data = "abort")
                  => j = Len(events')
        /\ ( /\ pc = "finish"
             /\ pc' # "finish"
             /\ events # << >>
             /\ LastEvent.what = "handle_error"
             /\ LastEvent.data = "abort" )
            => (context'.task_status = "failed" /\ events' = events)
      ]_vars

\* C11 witness: step 1 of a plan of MaxSteps steps failed, handle_error
\* answered ABORT, and the task is failed with no other step begun.
C11_Witness ==
    /\ pc = "loop"
    /\ context.task_status = "failed"
    /\ Len(context.current_plan) = MaxSteps
    /\ events # << >>
    /\ LastEvent = Event("handle_error", 1, "abort")
    /\ Cardinality(At("step")) = 1
    /\ Cardinality(At("dispatch")) = 1

\* C12: after a failed decision-driven action the loop takes the retry
\* branch if and only if handle_error's text contains "retry" in whatever
\* letter case; otherwise it aborts.
C12_RetryIffTextMentionsRetry ==
    [][ DispatchFailed =>
          IF MentionsRetry(error_handling_result')
          THEN /\ Appended(<< Event("dispatch", idx, FALSE),
                              Event("handle_error", idx, "retry") >>)
               /\ ~(pc' = "finish" /\ ~success')
               /\ pc' = "step" \/ (pc' = "finish" /\ idx = Len(plan))
          ELSE /\ Appended(<< Event("dispatch", idx, FALSE),
                              Event("handle_error", idx, "abort") >>)
               /\ pc' = "finish"
               /\ ~success'
      ]_vars

\* C12 witness: handle_error answered "pls retry" in lower case after step 1
\* failed, and the loop is at the start of another step.
C12_Witness ==
    /\ pc = "step"
    /\ idx = 2
    /\ events # << >>
    /\ LastEvent = Event("handle_error", 1, "retry")
    /\ error_handling_result = txtRetryLower

\* the step just taken ended a step with success: a dispatch that succeeded,
\* or a deterministic step one of whose details succeeded
StepSucceeded ==
    \/ Appended(<< Event("dispatch", idx, TRUE), Event("clear_after", idx, "") >>)
    \/ Appended(<< Event("evaluated", idx, TRUE) >>)

\* C13: the plan cursor advances by exactly one after every step that
\* succeeds, stays within the plan when rewound, and is past the last step
\* when _execute_plan returns True.
C13_CursorFollowsSteps ==
    [][ /\ StepSucceeded
            => context'.current_step_index = context.current_step_index + 1
        /\ (DispatchFailed /\ MentionsRetry(error_handling_result'))
            => context'.current_step_index \in 0..(Len(plan) - 1)
        /\ (pc # "finish" /\ pc' = "finish" /\ success')
            => context'.current_step_index >= Len(plan)
      ]_vars

\* every action of step i was dispatched after position j of the record
DispatchedAll(i, j) ==
    IF DecisionDriven(plan[i])
    THEN \E m \in At("dispatch") : m > j /\ events[m].step = i
    ELSE \A d \in 1..Len(plan[i].details) :
            \E m \in At("detail") :
                m > j /\ events[m].step = i /\ events[m].data.k = d

\* step i ended after position j in an exception that no stop caused
FailedByItself(i, j) ==
    \E m \in At("raised") :
        m > j /\ events[m].step = i /\ events[m].data # "shutdown"

\* C14: stop and pause act between steps only.  A step whose start finds the
\* agent stopped or paused ends the run with nothing dispatched for it or
\* for a later step; a step that has begun dispatches every one of its
\* actions, whatever stop() and pause() do meanwhile.
C14_StopAndPauseBetweenStepsOnly ==
    [][ /\ (pc = "step" /\ pc' # "step" /\ (~is_running \/ is_paused))
            => ( /\ pc' = "finish"
                 /\ ~success'
                 /\ Appended(<< Event("interrupted", idx,
                                      [running |-> is_running,
                                       paused |-> is_paused]) >>) )
        /\ \A j \in 1..Len(events') :
              events'[j].what = "interrupted" => j = Len(events')
        /\ pc \in {"step", "finish"}
            => \A j \in At("step") :
                  DispatchedAll(events[j].step, j) \/ FailedByItself(events[j].step, j)
      ]_vars

\* C15: tasks run through execute_parallel_tasks do not share their task
\* text, plan or cached observation: a worker's planner and decision maker
\* are asked for the worker's own task, the plan it executes is the plan it
\* set, and it decides on observations that it captured itself.
C15_ParallelTasksIndependent ==
    \A w \in Workers :
        LET me == workers[w] IN
        /\ \A i \in 1..Len(me.asked) : me.asked[i] = me.task
        /\ \A i \in 1..Len(me.decided_for) : me.decided_for[i] = me.task
        /\ me.plan # << >> => me.plan = me.own_plan
        /\ \A i \in 1..Len(me.observed) : me.observed[i] \in me.captured

\* the types execute_action has a branch for
KnownTypes ==
    {tyClick, tyType, tyPress, tyWait, tyScroll, tyDoubleClick, tyRightClick,
     tyDrag, tyRun, tyLaunch, tyLaunchChrome, tyScreenshot}

C17_UnknownActionReportedWithRawText ==
    [][ (pc = "decide" /\ context'.action_history # context.action_history) =>
          LET e == context'.action_history[Len(context'.action_history)] IN
          e.action.type = tyUnknown =>
              /\ ~e.success
              /\ e.result.text = "Unknown action type: "
              /\ Contains(msgUnknownType \o e.result.arg, e.action.raw)
              /\ \E d \in {"retry", "abort"} :
                    events'[Len(events')] = Event("handle_error", idx, d)
      ]_vars

\* text begins with keyword kw, in whatever letter case and after blanks
Begins(text, kw) == StartsWith(Upper(Strip(text)), kw)

\* what follows keyword kw in text, as it is written there, without its
\* double quotes
LiteralArgument(text, kw) == Unquote(Strip(DropFirst(Strip(text), Len(kw))))

\* C18: the parser keeps the argument of TYPE, RUN and LAUNCH in the case it
\* was written in: TYPE "hello world" gives the text "hello world".
C18_ArgumentKeepsItsCase ==
    \A j \in At("parse") :
        LET text   == events[j].data.text
            action == events[j].data.action
        IN  /\ Begins(text, kwTYPE)
                => action = [type |-> tyType, text |-> LiteralArgument(text, kwTYPE)]
            /\ Begins(text, kwRUN)
                => action = [type |-> tyRun, cmd |-> LiteralArgument(text, kwRUN)]
            /\ Begins(text, kwLAUNCH)
                => \/ action = [type |-> tyLaunchChrome]
                   \/ action = [type |-> tyLaunch,
                                app |-> LiteralArgument(text, kwLAUNCH)]

\* word is an integer as written: digits after an optional sign
WholeNumber(word) ==
    LET digits == IF word # << >> /\ word[1] \in {"+", "-"} THEN Tail(word)
                  ELSE word
    IN  /\ digits # << >>
        /\ \A i \in 1..Len(digits) :
              digits[i] \in {"0","1","2","3","4","5","6","7","8","9"}

\* a CLICK line that lacks a coordinate or has one that is not an integer
MalformedClick(text) ==
    LET words == Split(Strip(text)) IN
    /\ Begins(text, kwCLICK)
    /\ \/ Len(words) < 3
       \/ ~WholeNumber(words[2])
       \/ ~WholeNumber(words[3])

\* C19: a CLICK line whose coordinates are missing or not integers parses to
\* an unknown action, and as a detail handled by the loop directly it is a
\* detail that failed; neither raises.
C19_MalformedClickIsUnknown ==
    /\ \A j \in At("parse") :
          MalformedClick(events[j].data.text)
              => events[j].data.action =
                    [type |-> tyUnknown, raw |-> events[j].data.text]
    /\ \A j \in At("click_detail") :
          MalformedClick(events[j].data.text) => ~events[j].data.ok

\* C19 witness: "CLICK ten 10" was parsed to unknown and, as a detail, failed.
C19_Witness ==
    /\ Len(events) = 2
    /\ events[1] = Event("parse", 0,
                         [text |-> txtClickWord,
                          action |-> [type |-> tyUnknown, raw |-> txtClickWord]])
    /\ events[2] = Event("click_detail", 0, [text |-> txtClickWord, ok |-> FALSE])

Keywords == {kwCLICK, kwTYPE, kwPRESS, kwWAIT, kwSCROLL, kwRUN, kwLAUNCH}

\* C20: a text that does not begin with a keyword of the grammar parses to
\* the unknown action whose raw is the text as it was given.
C20_GarbageIsUnknownWithRawText ==
    \A j \in At("parse") :
        (\A kw \in Keywords : ~Begins(events[j].data.text, kw))
            => events[j].data.action =
                  [type |-> tyUnknown, raw |-> events[j].data.text]

\* C20 witness: "FOO BAR" and " Foo Bar " were parsed, each to unknown with
\* the text itself as raw.
C20_Witness ==
    /\ Len(events) = 2
    /\ events[1] = Event("parse", 0,
                         [text |-> txtGarbage,
                          action |-> [type |-> tyUnknown, raw |-> txtGarbage]])
    /\ events[2] = Event("parse", 0,
                         [text |-> txtGarbagePadded,
                          action |-> [type |-> tyUnknown, raw |-> txtGarbagePadded]])

\* word is a decimal number as written: an optional sign, digits, and at
\* most one point among them
DecimalNumber(word) ==
    LET body == IF word # << >> /\ word[1] \in {"+", "-"} THEN Tail(word)
                ELSE word
        points == { i \in 1..Len(body) : body[i] = "." }
    IN  /\ Cardinality(points) <= 1
        /\ Len(body) > Cardinality(points)
        /\ \A i \in (1..Len(body)) \ points :
              body[i] \in {"0","1","2","3","4","5","6","7","8","9"}

\* a WAIT line without a duration, or with one that is not a number
WaitWithoutDuration(text) ==
    LET words == Split(Strip(text)) IN
    /\ Begins(text, kwWAIT)
    /\ \/ Len(words) < 2
       \/ ~DecimalNumber(words[2])

\* C21: a WAIT line with no duration, or with one that does not parse,
\* parses to a wait of 2 seconds; as a detail handled by the loop directly
\* it sleeps 2 seconds and counts as a successful detail.
C21_WaitDefaultsToTwoSeconds ==
    /\ \A j \in At("parse") :
          WaitWithoutDuration(events[j].data.text)
              => events[j].data.action = [type |-> tyWait, duration |-> 2000]
    /\ \A j \in At("wait_detail") :
          WaitWithoutDuration(events[j].data.text)
              => events[j].data.duration = 2000 /\ events[j].data.ok

\* C21 witness: "WAIT soon" was parsed to a wait of 2 seconds and, as a
\* detail, slept 2 seconds and succeeded.
C21_Witness ==
    /\ Len(events) = 2
    /\ events[1] = Event("parse", 0,
                         [text |-> txtWaitWord,
                          action |-> [type |-> tyWait, duration |-> 2000]])
    /\ events[2] = Event("wait_detail", 0,
                         [text |-> txtWaitWord, duration |-> 2000, ok |-> TRUE])
\* the keys joined by "+" signs
RECURSIVE JoinPlus(_)
JoinPlus(keys) ==
    IF Len(keys) = 0 THEN << >>
    ELSE IF Len(keys) = 1 THEN keys[1]
    ELSE keys[1] \o <<"+">> \o JoinPlus(Tail(keys))

\* text without its blanks
Unspaced(text) == SelectSeq(text, LAMBDA c : c # " ")

\* the execute events of press actions
Presses ==
    { j \in At("execute") : "keyboard" \in DOMAIN events[j].data }

\* C22: a PRESS whose key text contains "+" is executed as one chord of all
\* the keys it names, in their order (PRESS "ctrl+a" presses ctrl and a
\* together); without a "+" it is one press of the one key.
C22_PressChordOrSingleKey ==
    /\ \A j \in At("parse") :
          events[j].data.text = txtPressChord
              => events[j].data.action =
                    [type |-> tyPress, key |-> <<"c","t","r","l","+","a">>]
    /\ \A j \in Presses :
          LET key  == events[j].data.action.key
              call == events[j].data.keyboard
              plus == { i \in 1..Len(key) : key[i] = "+" }
          IN  IF plus # {}
              THEN /\ call.method = "hotkey"
                   /\ Len(call.keys) = Cardinality(plus) + 1
                   /\ \A i \in 1..Len(call.keys) :
                         \A n \in 1..Len(call.keys[i]) :
                            call.keys[i][n] \notin {"+", " "}
                   /\ JoinPlus(call.keys) = Unspaced(key)
              ELSE call = [method |-> "press_key", keys |-> <<key>>]

\* C22 witness: PRESS "ctrl+a" was parsed, and its action was executed as
\* the chord of ctrl and a.
C22_Witness ==
    /\ Len(events) = 2
    /\ events[1].what = "parse"
    /\ events[1].data.text = txtPressChord
    /\ events[2].what = "execute"
    /\ events[2].data.action = events[1].data.action
    /\ events[2].data.result[1]
    /\ events[2].data.keyboard =
          [method |-> "hotkey", keys |-> << <<"c","t","r","l">>, <<"a">> >>]
\* the record holds nothing that was done for a step of a plan
NothingDone(es) ==
    \A j \in 1..Len(es) :
        es[j].what \notin {"step", "detail", "observe", "dispatch", "handle_error"}

\* C23: an empty plan is a hard failure of the task: _execute_plan returns
\* False at once, the task becomes failed, and no action is dispatched, no
\* handle_error asked and nothing retried for it.
C23_EmptyPlanFailsTask ==
    [][ /\ (pc = "execute" /\ pc' # "execute" /\ context.current_plan = << >>)
            => ( /\ pc' = "finish"
                 /\ ~success'
                 /\ Appended(<< Event("no_plan", 0, "") >>)
                 /\ NothingDone(events')
                 /\ context' = context )
        /\ (pc = "finish" /\ pc' # "finish" /\ At("no_plan") # {})
            => ( /\ context'.task_status = "failed"
                 /\ context'.action_history = << >>
                 /\ NothingDone(events') )
      ]_vars

\* C23 witness: the loop found no plan to execute, and the task is failed
\* with nothing else on the record.
C23_Witness ==
    /\ pc = "loop"
    /\ context.task_status = "failed"
    /\ context.current_plan = << >>
    /\ events = << Event("no_plan", 0, "") >>

\* C24: an error raised by a collaborator (capture, analysis, planner,
\* decision maker) while a task is processed does not end the agent loop:
\* the task becomes failed and the loop stays running, ready for the next
\* queued task; only stop() ends the loop.
C24_CollaboratorErrorKeepsLoopRunning ==
    [][ /\ (pc = "finish" /\ pc' # "finish" /\ At("raised") # {})
            => ( /\ context'.task_status = "failed"
                 /\ pc' = "loop"
                 /\ is_running' = is_running )
        /\ (is_running /\ ~is_running') => owner' = "joining"
      ]_vars
C26_StepsNumberedInOrder ==
    \A j \in At("plan_task") :
        \A n \in 1..Len(events[j].data.plan) : events[j].data.plan[n].number = n

\* C26 witness: two sub-tasks, planned as steps 1, 2 and steps 1, 1, gave a
\* plan of four steps numbered 1 to 4.
C26_Witness ==
    /\ Len(events) = 1
    /\ events[1].what = "plan_task"
    /\ Len(events[1].data.call.sub_tasks) = 2
    /\ events[1].data.call.responses = << ansPlan, ansTwice >>
    /\ Len(events[1].data.plan) = 4
    /\ \A n \in 1..4 : events[1].data.plan[n].number = n

\* C27: plan_task returns a plan that is not empty, whatever the task text
\* and the model's answers: when no sub-task yields a step, it returns the
\* fallback plan.  Every step of a fallback plan has details.
C27_PlanNeverEmpty ==
    /\ At("plan_task_raised") = {}
    /\ \A j \in At("plan_task") : events[j].data.plan # << >>
    /\ \A j \in At("fallback") :
          /\ events[j].data.plan # << >>
          /\ \A n \in 1..Len(events[j].data.plan) :
                events[j].data.plan[n].details # << >>
\* history new is history old after one append: the entries of old in
\* their order, without the oldest if old held 20, and one more at the end
AppendedTo(old, new) ==
    /\ new # << >>
    /\ Len(new) = IF Len(old) < 20 THEN Len(old) + 1 ELSE 20
    /\ \A n \in 1..(Len(new) - 1) : new[n] = old[Len(old) - (Len(new) - 1) + n]

\* the history was emptied by start_task
ClearedByStart(new) ==
    /\ new = << >>
    /\ submitted' # submitted
    /\ context'.task_status = "in_progress"

\* C28: the action history and the screen history are bounded buffers that
\* are only appended to: neither ever holds more than 20 entries, the
\* entries stay in the order they were appended in, and an append to a full
\* history drops the oldest entry and no other.
C28_HistoriesBounded ==
    [][ /\ Len(context'.action_history) <= 20
        /\ Len(context'.screen_history) <= 20
        /\ context'.action_history # context.action_history
            => \/ AppendedTo(context.action_history, context'.action_history)
               \/ ClearedByStart(context'.action_history)
        /\ context'.screen_history # context.screen_history
            => \/ AppendedTo(context.screen_history, context'.screen_history)
               \/ ClearedByStart(context'.screen_history)
      ]_vars

\* C28 witness: 22 actions and 22 screens were recorded; each history holds
\* the last 20, the third as its oldest entry.
C28_Witness ==
    /\ Len(events) = 22
    /\ perception.captures = 22
    /\ Len(context.action_history) = 20
    /\ \A n \in 1..20 :
          context.action_history[n].action.duration = 1000 * (n + 2)
    /\ Len(context.screen_history) = 20
    /\ \A n \in 1..20 : context.screen_history[n].id = n + 2
\* C29: _execute_plan takes up every step of its plan at most once, in the
\* order of the plan, so it ends after at most N passes through its loop; a
\* retry does not send it back to an earlier step.
C29_EachStepAtMostOnce ==
    /\ \A i \in At("step") : \A j \in At("step") :
          i < j => events[i].step < events[j].step
    /\ plan # << >> =>
          /\ Cardinality(At("step")) <= Len(plan)
          /\ \A j \in At("step") : events[j].step \in 1..Len(plan)
          /\ idx \in 1..Len(plan)

\* C29 witness: step 1 failed and handle_error asked for a retry; the plan
\* of MaxSteps steps has ended after MaxSteps passes, each step taken once.
C29_Witness ==
    /\ pc = "finish"
    /\ Len(plan) = MaxSteps
    /\ Cardinality(At("step")) = MaxSteps
    /\ \E j \in At("handle_error") :
          events[j].step = 1 /\ events[j].data = "retry"
    /\ \A n \in 1..MaxSteps : \E j \in At("step") : events[j].step = n

\* the actions of the task at hand that were dispatched before position j
\* of the record
DispatchedBefore(j) ==
    { m \in 1..(j - 1) : events[m].what \in {"dispatch", "detail"} }

\* C30: the screen text handed to decide_next_action comes from an
\* observation that was captured after the last action the task dispatched,
\* whatever the mix of deterministic and decision-driven steps: a cached
\* observation is used only while the task has dispatched nothing.
C30_DecisionSeesFreshScreen ==
    /\ \A j \in At("observe") :
          events[j].data.captured \/ DispatchedBefore(j) = {}
    /\ pc = "decide" =>
          /\ LastEvent.what = "observe"
          /\ LastEvent.step = idx
          /\ analysis.id = LastEvent.data.id
          /\ analysis.raw_text = screen

\* C30 witness: a decision is about to be made for step 2 on a capture made
\* after the details of the deterministic step 1 changed the screen.
C30_Witness ==
    /\ pc = "decide"
    /\ idx = 2
    /\ \E m \in At("detail") : events[m].step = 1 /\ events[m].data.ok
    /\ LastEvent.what = "observe"
    /\ LastEvent.data.captured
    /\ screen > 0
    /\ analysis.raw_text = screen
\* the events of one kind logged for step i, after the step taken
StepEvents(what, i) ==
    { j \in 1..Len(events') : events'[j].what = what /\ events'[j].step = i }

\* C31: a decision-driven step that dispatches an action has made one
\* observation, one decision and one dispatch, and has appended one entry
\* to the action history, with the decided action, the dispatcher's success
\* flag and its result text, whatever the failure policy does afterwards
\* (retry, abort, or handle_error raising).
C31_OneObserveDecideDispatch ==
    [][ (pc = "decide" /\ \E j \in (Len(events) + 1)..Len(events') :
                             events'[j].what = "dispatch")
        => /\ Cardinality(StepEvents("observe", idx)) = 1
           /\ Cardinality(StepEvents("dispatch", idx)) = 1
           /\ Len(context'.action_history) = Len(context.action_history) + 1
           /\ SubSeq(context'.action_history, 1, Len(context.action_history))
                 = context.action_history
           /\ LET entry == context'.action_history[Len(context'.action_history)]
                  d     == CHOOSE j \in StepEvents("dispatch", idx) : TRUE
              IN  /\ entry.success = events'[d].data
                  /\ \E text \in DecisionTexts, host \in Hosts :
                        /\ entry.action = _parse_action(Strip(text))
                        /\ <<entry.success, entry.result>> =
                              execute_action(entry.action, host)
                  /\ session_log' = Append(session_log,
                                           [type |-> "action", data |-> entry.success])
      ]_vars

\* C31 witness: the action of step 1 failed, handle_error answered ABORT,
\* and the one entry of the action history carries the failure.
C31_Witness ==
    /\ pc = "finish"
    /\ events # << >>
    /\ LastEvent = Event("handle_error", 1, "abort")
    /\ Cardinality(At("observe")) = 1
    /\ Cardinality(At("dispatch")) = 1
    /\ Len(context.action_history) = 1
    /\ ~context.action_history[1].success
\* the loop thread is in a step that has details
InDeterministicStep ==
    /\ pc \in {"step", "detail", "evaluate", "observe", "decide"}
    /\ idx \in 1..Len(plan)
    /\ plan[idx].details # << >>

\* C32: whatever the loop thread does for a step that has details, with
\* details that succeed or fail, the perception cache and its count of
\* captures stay as they are, no screen is added to the context, and neither
\* decide_next_action nor handle_error is called.
C32_DeterministicStepLeavesCacheAlone ==
    [][ (InDeterministicStep /\ events' # events)
        => /\ perception' = perception
           /\ analysis' = analysis
           /\ error_handling_result' = error_handling_result
           /\ context'.screen_history = context.screen_history
           /\ \A j \in (Len(events) + 1)..Len(events') :
                 events'[j].what \in {"step", "interrupted", "detail", "evaluated",
                                      "raised"}
                 /\ (events'[j].what = "raised" => events'[j].data = "sleep")
      ]_vars

\* C32 witness: a plan of one deterministic step whose only detail failed
\* has ended, and the one capture made is the one taken for planning.
C32_Witness ==
    /\ pc = "finish"
    /\ Len(plan) = 1
    /\ plan[1].details # << >>
    /\ events # << >>
    /\ LastEvent = Event("evaluated", 1, FALSE)
    /\ Cardinality(At("detail")) = 1
    /\ perception.captures = 1
    /\ perception._cached_analysis # NoAnalysis
\* C35: once the loop thread has set a non-empty plan for the task it took
\* from the queue, the plan stays in the context until _execute_plan reads
\* it: execute_task's start_task does not run in between, and the task
\* never ends with "No plan to execute".
C35_PlanSurvivesUntilRead ==
    /\ (pc = "execute" => context.current_plan # << >>)
    /\ At("no_plan") = {}
\* the task_end events of the session log
TaskEnds == { j \in 1..Len(session_log) : session_log[j].type = "task_end" }

\* the loop has just recorded the outcome of the one task there is: the
\* session log ends with its task_end event, the only one, and the status
\* in the context is the one that goes with the result logged
OutcomeRecorded ==
    /\ session_log[Len(session_log)].type = "task_end"
    /\ Cardinality(TaskEnds) = 1
    /\ context.task_status =
          IF session_log[Len(session_log)].data THEN "completed" ELSE "failed"

agentState ==
    <<is_running, is_paused, task_queue, current_task, context, perception,
      session_log, screen, owner, submitted, workers>>

\* the owner's call of this name returns with the step taken
Called(name) ==
    /\ Len(events') = Len(events) + 1
    /\ events'[Len(events')].what = name

\* what the call that returns with the step taken hands back
Returned == events'[Len(events')].data

\* C38: execute_task on an agent that is not running returns None and
\* leaves the queue, the context and the session log as they are, like all
\* the rest of the agent; start() on a running agent and stop() on an agent
\* that is not running return False and change nothing either.
C38_RefusedCallsChangeNothing ==
    [][ /\ (Called("execute_task") /\ ~is_running)
            => (Returned = "None" /\ UNCHANGED agentState)
        /\ (Called("start") /\ is_running)
            => (Returned = FALSE /\ UNCHANGED agentState)
        /\ (Called("stop") /\ ~is_running)
            => (Returned = FALSE /\ UNCHANGED agentState)
      ]_vars

\* C38 witness: each of the three calls was refused once, and nothing is
\* queued, submitted or logged.
C38_Witness ==
    /\ \E j \in At("execute_task") : events[j].data = "None"
    /\ \E j \in At("start") : events[j].data = FALSE
    /\ \E j \in At("stop") : events[j].data = FALSE
    /\ task_queue = << >>
    /\ submitted = << >>
    /\ context = NewContext
    /\ session_log = << [type |-> "session_start"] >>
\* the loop threads that have not ended
Alive == { w \in Workers : workers[w].pc \notin {"idle", "terminated"} }

\* C37: whatever start() and stop() calls are made, one loop thread at most
\* is alive: a start() that follows a stop() finds the earlier thread ended,
\* and a start() on a running agent creates no thread.
C37_OneLoopThread ==
    /\ Cardinality(Alive) <= 1
    /\ Cardinality(Processing) <= 1

\* C36: the outcome the loop records goes to the task that has ended: when
\* a thread records it, the context is the one of the task the thread took,
\* and an execute_task made while a task is being carried out leaves the
\* plan, the cursor and the action history of that task alone.
C36_OutcomeGoesToFinishedTask ==
    [][ /\ \A w \in Workers :
              (workers[w].pc = "finish" /\ workers'[w].pc # "finish")
                  => context.current_task = workers[w].task
        /\ (owner = "submitting" /\ owner' = "idle" /\ Processing # {})
              => /\ context'.current_plan = context.current_plan
                 /\ context'.current_step_index = context.current_step_index
                 /\ context'.action_history = context.action_history
      ]_vars

\* the queue holds the tasks submitted and not yet taken, in their order
QueueIsRestOfSubmitted ==
    /\ Len(task_queue) <= Len(submitted)
    /\ task_queue = SubSeq(submitted, Len(submitted) - Len(task_queue) + 1,
                           Len(submitted))

\* C33: the tasks given to execute_task are taken from the queue in the
\* order they were submitted, one task is being carried out at a time, no
\* task is taken while the agent is paused, and none gets lost.
C33_OneTaskAtATimeInOrder ==
    [][ /\ \A w \in Workers :
              (workers[w].pc = "loop" /\ workers'[w].pc = "process")
                  => /\ ~is_paused
                     /\ workers'[w].task =
                           submitted[Len(submitted) - Len(task_queue) + 1]
                     /\ task_queue' = Tail(task_queue)
        /\ is_paused => Len(task_queue') >= Len(task_queue)
        /\ QueueIsRestOfSubmitted'
        /\ Cardinality(Processing') <= 1
      ]_vars
\* what the execution loop makes of a detail line is something the
\* dispatcher knows: a wait or a direct click the loop carries out itself,
\* or an action _parse_action names that execute_action has a branch for
DetailIsKnown(detail) ==
    \/ IsWaitDetail(detail)
    \/ IsClickDetail(detail)
    \/ LET action == _parse_action(detail) IN
       /\ action.type # tyUnknown
       /\ execute_action(action, "ok")[2].text # "Unknown action type: "

\* C39: every detail line of every plan get_fallback_plan returns is turned
\* by the execution loop into an action the dispatcher knows, never into an
\* unknown action.
C39_FallbackDetailsAreKnown ==
    \A j \in At("fallback") :
        \A s \in 1..Len(events[j].data.plan) :
            \A d \in 1..Len(events[j].data.plan[s].details) :
                DetailIsKnown(events[j].data.plan[s].details[d])
\* the execute_action calls that went to the mouse controller
MouseCalls == { j \in At("execute") : "mouse" \in DOMAIN events[j].data }

\* C40: execute_action reports success for a click, double click, right
\* click or drag only if the mouse operation reported success: when the
\* operation reports a failure, success is false.
C40_MouseFailureIsReported ==
    \A j \in MouseCalls :
        /\ events[j].data.mouse.failed => ~events[j].data.result[1]
        /\ events[j].data.result[1] => ~events[j].data.mouse.failed
====
